---- MODULE Spec2Model ----
(***************************************************************************)
(* LinkedIn CTO Finder API: query construction, page fetching on the two   *)
(* search backends, profile extraction and the callers (the two HTTP       *)
(* search endpoints and the Telegram bot's performSearch).                 *)
(*                                                                         *)
(* Strings are TLA+ strings; TLC evaluates Len, \o, SubSeq, Head and Tail  *)
(* on them, so the string functions of the code (toLowerCase, includes,    *)
(* join, ...) are computed character by character.                         *)
(*                                                                         *)
(* An optional value of the code (string | undefined) is a sequence of no  *)
(* or one element: << >> is undefined, <<s>> is the string s.              *)
(***************************************************************************)
EXTENDS Integers, Sequences, FiniteSets, TLC

VARIABLES
    env,            \* the configuration read at start-up: which credentials are set, which extractor is linked
    req,            \* the search request being handled and who sent it
    pc,             \* where the handling of the request stands
    svc,            \* the locals of the running search-service call
    log,            \* what the service did on the network and the clock: requests sent, delays slept
    pages,          \* the backend's answers to the requests, in order
    result,         \* how the search-service call ended
    response,       \* the HTTP response sent
    botMsgs,        \* the messages the bot sent to the chat
    session,        \* the bot's session of the chat
    searchHistory,  \* the in-memory search history
    q,              \* SpecQuery: the query-construction call and its outcome
    x,              \* SpecExtract, SpecScore: the extraction or scoring call and its outcome
    h,              \* SpecHistory: the search handlers in flight, the clock, the history response just sent
    calls,          \* SpecPair: the locals of two search-service calls that run together
    chat            \* SpecBot: one chat of the bot: the session table's entry, the handlers in flight, the files

----------------------------------------------------------------------------
(* JavaScript values and strings *)

Undefined == << >>

Some(s) == <<s>>

\* JavaScript truthiness of a string | undefined: undefined and "" are falsy
Truthy(o) == o /= Undefined /\ o[1] /= ""

Min(a, b) == IF a <= b THEN a ELSE b

Max(a, b) == IF a >= b THEN a ELSE b

UpperLetters == "ABCDEFGHIJKLMNOPQRSTUVWXYZ"

LowerLetters == "abcdefghijklmnopqrstuvwxyz"

Digits == "0123456789"

CharAt(s, i) == SubSeq(s, i, i)

\* whether the one-character string c occurs in the string set
CharIn(c, set) == \E i \in 1..Len(set) : CharAt(set, i) = c

IndexIn(c, set) == CHOOSE i \in 1..Len(set) : CharAt(set, i) = c

LowerChar(c) == IF CharIn(c, UpperLetters) THEN CharAt(LowerLetters, IndexIn(c, UpperLetters)) ELSE c

UpperChar(c) == IF CharIn(c, LowerLetters) THEN CharAt(UpperLetters, IndexIn(c, LowerLetters)) ELSE c

RECURSIVE ToLowerCase(_)
\* String.prototype.toLowerCase
ToLowerCase(s) ==
    IF Len(s) <= 1 THEN LowerChar(s)
    ELSE LET half == Len(s) \div 2
         IN  ToLowerCase(SubSeq(s, 1, half)) \o ToLowerCase(SubSeq(s, half + 1, Len(s)))

RECURSIVE ToUpperCase(_)
\* String.prototype.toUpperCase
ToUpperCase(s) ==
    IF Len(s) <= 1 THEN UpperChar(s)
    ELSE LET half == Len(s) \div 2
         IN  ToUpperCase(SubSeq(s, 1, half)) \o ToUpperCase(SubSeq(s, half + 1, Len(s)))

\* whether sub occurs in s at position i
MatchAt(s, i, sub) == i >= 1 /\ i + Len(sub) - 1 <= Len(s) /\ SubSeq(s, i, i + Len(sub) - 1) = sub

\* String.prototype.includes
Includes(s, sub) == \E i \in 1..(Len(s) + 1) : MatchAt(s, i, sub)

StartsWith(s, sub) == MatchAt(s, 1, sub)

RECURSIVE Join(_, _)
\* Array.prototype.join
Join(parts, sep) ==
    IF parts = << >> THEN ""
    ELSE IF Len(parts) = 1 THEN parts[1]
    ELSE parts[1] \o sep \o Join(Tail(parts), sep)

\* F(v), with v evaluated once
With(v, F(_)) == CHOOSE r \in { F(w) : w \in { v } } : TRUE

\* Array.prototype.map
Map(F(_), seq) == [i \in 1..Len(seq) |-> F(seq[i])]

----------------------------------------------------------------------------
(* Query construction: searchCtoProfiles / searchCtoProfilesLimited *)

ExecutiveTitleList ==
    << "CTO", "Chief Technology Officer", "VP Technology", "Head of Technology",
       "Technology Director", "VP Engineering", "Chief Technical Officer",
       "Head of Engineering", "Tech Lead", "Engineering Director", "Technology VP",
       "Chief Technology", "VP of Technology", "VP of Engineering", "Head of Tech" >>

sectorKeywords ==
    ("software" :> << "software", "SaaS", "tech", "technology" >>) @@
    ("fintech" :> << "fintech", "financial technology", "finance", "banking" >>) @@
    ("healthcare" :> << "healthcare", "medical", "health tech", "biotech" >>) @@
    ("e-commerce" :> << "e-commerce", "ecommerce", "retail", "online" >>) @@
    ("AI/ML" :> << "AI", "ML", "artificial intelligence", "machine learning" >>) @@
    ("cybersecurity" :> << "cybersecurity", "security", "infosec" >>) @@
    ("blockchain" :> << "blockchain", "crypto", "web3" >>) @@
    ("IoT" :> << "IoT", "Internet of Things", "connected devices" >>) @@
    ("gaming" :> << "gaming", "game", "entertainment" >>)

typeKeywords ==
    ("startup" :> << "startup", "early stage", "seed" >>) @@
    ("SME" :> << "SME", "medium business", "scale-up" >>) @@
    ("enterprise" :> << "enterprise", "Fortune", "large company" >>) @@
    ("unicorn" :> << "unicorn", "billion", "$1B" >>) @@
    ("public" :> << "public company", "NYSE", "NASDAQ", "publicly traded" >>)

excludes == << "Intern", "Student", "Former", "Ex-", "Previous", "Consultant" >>

\* The tables are object literals: a property read that finds no own property
\* goes on to Object.prototype, whose members are these names.
ObjectPrototypeKeys ==
    { "constructor", "__proto__", "hasOwnProperty", "isPrototypeOf",
      "propertyIsEnumerable", "toLocaleString", "toString", "valueOf",
      "__defineGetter__", "__defineSetter__", "__lookupGetter__", "__lookupSetter__" }

\* table[key] of the code: the own property's array, a member inherited from
\* Object.prototype (truthy, and no array), or undefined
PropertyRead(table, key) ==
    IF key \in DOMAIN table THEN [kind |-> "array", terms |-> table[key]]
    ELSE IF key \in ObjectPrototypeKeys THEN [kind |-> "inherited", terms |-> << >>]
    ELSE [kind |-> "undefined", terms |-> << >>]

Quote(term) == "\"" \o term \o "\""

Negate(term) == "-\"" \o term \o "\""

\* executiveTitles with the additional titles pushed, as a quoted OR-disjunction
TitleClause(additionalTitles) ==
    LET titles == ExecutiveTitleList \o (IF additionalTitles /= Undefined THEN additionalTitles[1] ELSE << >>)
    IN  "(" \o Join(Map(Quote, titles), " OR ") \o ")"

\* table[value.toLowerCase()] || [value], then mapped, joined and parenthesised;
\* terms.map throws a TypeError when the value read is no array
KeywordClause(table, value) ==
    LET found == PropertyRead(table, ToLowerCase(value))
        terms == IF found.kind = "undefined" THEN << value >> ELSE found.terms
    IN  IF found.kind = "inherited"
        THEN [threw |-> TRUE, clause |-> ""]
        ELSE [threw |-> FALSE, clause |-> "(" \o Join(Map(Quote, terms), " OR ") \o ")"]

\* SearchQuery with the sector clause pushed before the region clause
SearchQuerySectorFirst(region, companySector, companyType, additionalTitles) ==
    LET base == << "site:linkedin.com/in/", TitleClause(additionalTitles) >>
        sector == IF Truthy(companySector) THEN KeywordClause(sectorKeywords, companySector[1])
                  ELSE [threw |-> FALSE, clause |-> ""]
        withSector == IF Truthy(companySector) /\ ~sector.threw
                      THEN Append(base, sector.clause) ELSE base
        withRegion == IF Truthy(region) THEN Append(withSector, Quote(region[1])) ELSE withSector
        type == IF Truthy(companyType) /\ ~sector.threw
                THEN KeywordClause(typeKeywords, companyType[1])
                ELSE [threw |-> FALSE, clause |-> ""]
        withType == IF Truthy(companyType) /\ ~sector.threw /\ ~type.threw
                    THEN Append(withRegion, type.clause) ELSE withRegion
        queryParts == withType \o Map(Negate, excludes)
    IN  IF sector.threw \/ type.threw
        THEN [threw |-> TRUE, queryParts |-> << >>, query |-> ""]
        ELSE [threw |-> FALSE, queryParts |-> queryParts, query |-> Join(queryParts, " ")]

\* The statements of searchCtoProfiles up to `const query = queryParts.join(" ")`
SearchQuery(region, companySector, companyType, additionalTitles) ==
    LET base == << "site:linkedin.com/in/", TitleClause(additionalTitles) >>
        withRegion == IF Truthy(region) THEN Append(base, Quote(region[1])) ELSE base
        sector == IF Truthy(companySector) THEN KeywordClause(sectorKeywords, companySector[1])
                  ELSE [threw |-> FALSE, clause |-> ""]
        withSector == IF Truthy(companySector) /\ ~sector.threw
                      THEN Append(withRegion, sector.clause) ELSE withRegion
        type == IF Truthy(companyType) /\ ~sector.threw
                THEN KeywordClause(typeKeywords, companyType[1])
                ELSE [threw |-> FALSE, clause |-> ""]
        withType == IF Truthy(companyType) /\ ~sector.threw /\ ~type.threw
                    THEN Append(withSector, type.clause) ELSE withSector
        queryParts == withType \o Map(Negate, excludes)
    IN  IF sector.threw \/ type.threw
        THEN [threw |-> TRUE, queryParts |-> << >>, query |-> ""]
        ELSE [threw |-> FALSE, queryParts |-> queryParts, query |-> Join(queryParts, " ")]

\* LinkedInProfileSearchService.searchCtoProfilesLimited builds its query with
\* the same statements
LimitedSearchQuery(region, companySector, companyType, additionalTitles) ==
    SearchQuery(region, companySector, companyType, additionalTitles)

\* SerpApiSearchService.searchCtoProfiles builds its query with the same statements
SerpApiSearchQuery(region, companySector, companyType, additionalTitles) ==
    SearchQuery(region, companySector, companyType, additionalTitles)

----------------------------------------------------------------------------
(* ProfileExtractor.  The repository holds it twice: in search-services     *)
(* (imported by the server and by the bot) and inline in the single-file    *)
(* server; the two differ in calculateConfidence and validateProfile.       *)

ServicesExtractor == "search-services"

InlineExtractor == "single-file"

Extractors == { ServicesExtractor, InlineExtractor }

\* this.executiveTitles
executiveTitles ==
    << "cto", "chief technology officer", "vp technology", "head of technology",
       "technology director", "vp engineering", "chief technical officer",
       "head of engineering", "tech lead", "engineering director", "technology vp" >>

\* \w of a regular expression
IsWordChar(c) == CharIn(c, UpperLetters) \/ CharIn(c, LowerLetters) \/ CharIn(c, Digits) \/ c = "_"

\* \s of a regular expression, for the characters the model's texts hold
IsSpaceChar(c) == c = " " \/ c = "\t" \/ c = "\n" \/ c = "\r"

\* the end of the longest run of characters satisfying Allowed that starts at i
\* (i - 1 when the character at i does not satisfy it)
RunEnd(s, i, Allowed(_)) ==
    IF \E j \in i..Len(s) : ~Allowed(CharAt(s, j))
    THEN (CHOOSE j \in i..Len(s) :
              ~Allowed(CharAt(s, j)) /\ \A k \in i..(j - 1) : Allowed(CharAt(s, k))) - 1
    ELSE Len(s)

\* the least i in 1..n with P(i), or 0
FirstIndex(n, P(_)) ==
    IF \E i \in 1..n : P(i)
    THEN CHOOSE i \in 1..n : P(i) /\ \A j \in 1..(i - 1) : ~P(j)
    ELSE 0

\* String.prototype.trim
Trim(s) ==
    LET first == FirstIndex(Len(s), LAMBDA i : ~IsSpaceChar(CharAt(s, i)))
        last == CHOOSE e \in 0..Len(s) :
                    /\ e = 0 \/ ~IsSpaceChar(CharAt(s, e))
                    /\ \A j \in (e + 1)..Len(s) : IsSpaceChar(CharAt(s, j))
    IN  IF first = 0 THEN "" ELSE SubSeq(s, first, last)

\* /https?:\/\/(?:www\.)?linkedin\.com\/in\/[\w\-]+/ matched at position i
UrlPatternAt(url, i) ==
    \E scheme \in { "http://", "https://" }, www \in { "", "www." } :
        LET head == scheme \o www \o "linkedin.com/in/"
            c == CharAt(url, i + Len(head))
        IN  /\ MatchAt(url, i, head)
            /\ i + Len(head) <= Len(url)
            /\ IsWordChar(c) \/ c = "-"

\* a URL gate that accepts every link with a scheme, whatever its host and path
linkedinUrlPatternAnyHost(url) == \E i \in 1..Len(url) : MatchAt(url, i, "://")

\* this.linkedinUrlPattern.test(url): the pattern is not anchored
linkedinUrlPattern(url) == \E i \in 1..Len(url) : UrlPatternAt(url, i)

\* title.match(/^([^-|:]+)/), then trim; "" when there is no match
ExtractName(title) ==
    LET e == RunEnd(title, 1, LAMBDA c : c /= "-" /\ c /= "|" /\ c /= ":")
    IN  IF e = 0 THEN "" ELSE Trim(SubSeq(title, 1, e))

RECURSIVE toTitleCase(_)
\* str.replace(/\w\S*/g, txt => txt.charAt(0).toUpperCase() + txt.substr(1).toLowerCase())
toTitleCase(str) ==
    LET start == FirstIndex(Len(str), LAMBDA i : IsWordChar(CharAt(str, i)))
        end == RunEnd(str, start, LAMBDA c : ~IsSpaceChar(c))
    IN  IF start = 0 THEN str
        ELSE SubSeq(str, 1, start - 1)
                 \o ToUpperCase(CharAt(str, start))
                 \o ToLowerCase(SubSeq(str, start + 1, end))
                 \o toTitleCase(SubSeq(str, end + 1, Len(str)))

\* the capture of /<lead>([^|,\-\n]+)/ in text, leftmost match; << >> when none
CaptureAfter(text, lead) ==
    LET Allowed(c) == c /= "|" /\ c /= "," /\ c /= "-" /\ c /= "\n"
        at == FirstIndex(Len(text),
                  LAMBDA i : /\ MatchAt(text, i, lead)
                             /\ i + Len(lead) <= Len(text)
                             /\ Allowed(CharAt(text, i + Len(lead))))
    IN  IF at = 0 THEN << >>
        ELSE << SubSeq(text, at + Len(lead), RunEnd(text, at + Len(lead), Allowed)) >>

\* the capture of /(\w+(?:\s+\w+)*) \-/ in text, leftmost match; << >> when none:
\* a run of word and space characters that begins and ends with a word
\* character and is followed by one space and a hyphen
CaptureBeforeHyphen(text) ==
    LET WordOrSpace(c) == IsWordChar(c) \/ IsSpaceChar(c)
        EndOf(i) == RunEnd(text, i, WordOrSpace)
        at == FirstIndex(Len(text),
                  LAMBDA i : /\ IsWordChar(CharAt(text, i))
                             /\ EndOf(i) >= i + 1
                             /\ EndOf(i) < Len(text)
                             /\ CharAt(text, EndOf(i)) = " "
                             /\ IsWordChar(CharAt(text, EndOf(i) - 1))
                             /\ CharAt(text, EndOf(i) + 1) = "-")
    IN  IF at = 0 THEN << >> ELSE << SubSeq(text, at, EndOf(at) - 1) >>

\* the first of the three company patterns that matches text, its capture
\* trimmed and title-cased; "" when none matches
CompanyOf(text) ==
    With(CaptureAfter(text, "at "), LAMBDA m1 :
        IF m1 /= << >> THEN toTitleCase(Trim(m1[1]))
        ELSE With(CaptureAfter(text, "@ "), LAMBDA m2 :
            IF m2 /= << >> THEN toTitleCase(Trim(m2[1]))
            ELSE With(CaptureBeforeHyphen(text), LAMBDA m3 :
                IF m3 /= << >> THEN toTitleCase(Trim(m3[1])) ELSE "")))

\* the first of executiveTitles that text includes; "" when none
JobTitleOf(text) ==
    With(FirstIndex(Len(executiveTitles), LAMBDA i : Includes(text, executiveTitles[i])),
         LAMBDA hit : IF hit = 0 THEN "" ELSE executiveTitles[hit])

\* extractTitleAndCompany: [jobTitle, company]
extractTitleAndCompany(title, snippet) ==
    With(ToLowerCase(title \o " " \o snippet),
         LAMBDA text : << toTitleCase(JobTitleOf(text)), CompanyOf(text) >>)

RECURSIVE Split(_, _)
\* String.prototype.split with a one-character separator
Split(s, sep) ==
    LET at == FirstIndex(Len(s), LAMBDA i : CharAt(s, i) = sep)
    IN  IF at = 0 THEN << s >>
        ELSE << SubSeq(s, 1, at - 1) >> \o Split(SubSeq(s, at + 1, Len(s)), sep)

RECURSIVE Sum(_)
\* the sum of a sequence of numbers
Sum(seq) == IF seq = << >> THEN 0 ELSE Head(seq) + Sum(Tail(seq))

falsePositives == << "student", "intern", "former", "ex-", "previous" >>

\* the 30 / 40 / 20, +2 per context word, -20 per marker sum returned as it is
calculateConfidenceServicesUnclamped(jobTitle, company, searchContext, snippet) ==
    LET snippetLower == ToLowerCase(snippet)
        titleLower == ToLowerCase(jobTitle)
        base == (IF jobTitle /= "" THEN 30 ELSE 0)
                + (IF Includes(titleLower, "cto") \/ Includes(titleLower, "chief technology officer")
                   THEN 40 ELSE 0)
                + (IF company /= "" THEN 20 ELSE 0)
        context == IF searchContext /= ""
                   THEN Sum(Map(LAMBDA word : IF Len(word) > 3 /\ Includes(snippetLower, word) THEN 2 ELSE 0,
                                Split(ToLowerCase(searchContext), " ")))
                   ELSE 0
        penalty == Sum(Map(LAMBDA fp : IF Includes(snippetLower, fp) THEN 20 ELSE 0, falsePositives))
    IN  base + context - penalty

\* calculateConfidence of search-services: 30 / 40 / 20, +2 per context word,
\* -20 per false-positive marker, clamped to [0, 100]
calculateConfidenceServices(jobTitle, company, searchContext, snippet) ==
    LET snippetLower == ToLowerCase(snippet)
        titleLower == ToLowerCase(jobTitle)
        base == (IF jobTitle /= "" THEN 30 ELSE 0)
                + (IF Includes(titleLower, "cto") \/ Includes(titleLower, "chief technology officer")
                   THEN 40 ELSE 0)
                + (IF company /= "" THEN 20 ELSE 0)
        context == IF searchContext /= ""
                   THEN Sum(Map(LAMBDA word : IF Len(word) > 3 /\ Includes(snippetLower, word) THEN 2 ELSE 0,
                                Split(ToLowerCase(searchContext), " ")))
                   ELSE 0
        penalty == Sum(Map(LAMBDA fp : IF Includes(snippetLower, fp) THEN 20 ELSE 0, falsePositives))
    IN  Max(0, Min(100, base + context - penalty))

\* calculateConfidence of the single-file server: 40 / 30 or 20 / 20 / 10,
\* capped at 100
calculateConfidenceInline(jobTitle, company, searchContext, snippet) ==
    LET titleLower == ToLowerCase(jobTitle)
        contextLower == ToLowerCase(searchContext)
        title == IF \E i \in 1..Len(executiveTitles) : Includes(titleLower, executiveTitles[i])
                 THEN 40 ELSE 0
        context == IF searchContext /= "" /\ Includes(ToLowerCase(company), contextLower) THEN 30
                   ELSE IF searchContext /= "" /\ Includes(ToLowerCase(snippet), contextLower) THEN 20
                   ELSE 0
        complete == (IF jobTitle /= "" /\ company /= "" THEN 20 ELSE 0)
                    + (IF Len(snippet) > 100 THEN 10 ELSE 0)
    IN  Min(title + context + complete, 100)

calculateConfidence(extractor, jobTitle, company, searchContext, snippet) ==
    IF extractor = ServicesExtractor
    THEN calculateConfidenceServices(jobTitle, company, searchContext, snippet)
    ELSE calculateConfidenceInline(jobTitle, company, searchContext, snippet)

\* validateProfile of search-services
validateProfileServices(profile) ==
    /\ Len(profile.name) > 0
    /\ Len(profile.linkedin_url) > 0
    /\ profile.confidence_score > 10

\* validateProfile of the single-file server
validateProfileInline(profile) ==
    /\ profile.confidence_score >= 20
    /\ profile.name /= ""
    /\ profile.linkedin_url /= ""
    /\ Len(profile.name) >= 2

validateProfile(extractor, profile) ==
    IF extractor = ServicesExtractor THEN validateProfileServices(profile)
    ELSE validateProfileInline(profile)

\* parseSearchItem: << >> for null, else the profile (its location, which
\* nothing reads back, is left out)
parseSearchItem(extractor, item, searchContext) ==
    IF ~linkedinUrlPattern(item.link) THEN << >>
    ELSE With(extractTitleAndCompany(item.title, item.snippet), LAMBDA tc :
            << [ name |-> ExtractName(item.title),
                 title |-> tc[1],
                 company |-> tc[2],
                 linkedin_url |-> item.link,
                 snippet |-> item.snippet,
                 confidence_score |-> calculateConfidence(extractor, tc[1], tc[2], searchContext, item.snippet),
                 sources |-> << "Google Custom Search" >> ] >>)

\* The raw result items a backend serves.  A field the backend leaves out
\* reads as "" in parseSearchItem (item.link || ""), and is "" here.
RawItems ==
    << [ title |-> "Jane Doe - CTO at Acme",
         link |-> "https://linkedin.com/in/janedoe",
         snippet |-> "Jane Doe is the CTO at Acme Software, San Francisco area, over 100 characters of additional padding text here to cross the completeness threshold for scoring purposes now." ],
       [ title |-> "Sam Roe",
         link |-> "https://www.linkedin.com/in/sam-roe",
         snippet |-> "Tech lead and former founder in Boston" ],
       [ title |-> "Ann Lee",
         link |-> "http://linkedin.com/in/ann_lee",
         snippet |-> "Engineer at Initech" ],
       [ title |-> "Bo Chen | LinkedIn",
         link |-> "https://www.linkedin.com/in/bo-chen",
         snippet |-> "Engineer in Boston" ],
       [ title |-> "Not A Profile - CTO at Example",
         link |-> "https://example.com/not-a-profile",
         snippet |-> "CTO at Example" ],
       [ title |-> "Jane Doe - Chief Technology Officer",
         link |-> "HTTPS://WWW.LinkedIn.com/in/jane-doe",
         snippet |-> "Chief Technology Officer at Acme" ],
       [ title |-> "J - VP Engineering @ Globex",
         link |-> "https://www.linkedin.com/in/j",
         snippet |-> "VP Engineering @ Globex" ],
       [ title |-> "- Head of Engineering",
         link |-> "https://www.linkedin.com/in/anonymous",
         snippet |-> "Head of Engineering at Hooli, Boston" ],
       [ title |-> "Tom Poe: Tech Lead",
         link |-> "https://linkedin.com/in/tom-poe",
         snippet |-> "Tech lead, former intern" ],
       [ title |-> "",
         link |-> "",
         snippet |-> "" ] >>

\* A raw item as a search response carries it: the request that returned it,
\* its place in that page, and which of RawItems it is.
Item(from, pos, raw) == [from |-> from, pos |-> pos, raw |-> raw]

\* String(value) of a template literal: `${undefined}` is "undefined"
TemplateString(o) == IF o = Undefined THEN "undefined" ELSE o[1]

\* [a, b, c].filter(Boolean)
FilterTruthy(opts) == Map(LAMBDA o : o[1], SelectSeq(opts, Truthy))

\* the search context the HTTP endpoints hand to the extractor
HttpSearchContext(request) ==
    Join(FilterTruthy(<< request.region, request.company_sector, request.company_type >>), " ")

\* the search context performSearch hands to the extractor
BotSearchContext(params) ==
    TemplateString(params.region) \o " " \o TemplateString(params.company_sector)
        \o " " \o TemplateString(params.company_type)

\* the filter sets of the requests the callers send in Spec
HttpFilters ==
    [ region : { Undefined, Some("Boston") },
      company_sector : { Undefined, Some("constructor") },
      company_type : { Undefined },
      company_size : { Undefined } ]

BotFilters ==
    { [ region |-> Undefined, company_sector |-> Undefined,
        company_type |-> Undefined, company_size |-> Undefined ],
      [ region |-> Some("united states"), company_sector |-> Some("IoT"),
        company_type |-> Undefined, company_size |-> Some("11-50") ],
      [ region |-> Undefined, company_sector |-> Some("constructor"),
        company_type |-> Undefined, company_size |-> Undefined ] }

ExtractContexts == { "", "Boston", "San Francisco software" }

KnownContexts ==
    ExtractContexts \cup { HttpSearchContext(f) : f \in HttpFilters }
        \cup { BotSearchContext(f) : f \in BotFilters }

\* parseSearchItem on each of RawItems, computed once
ParsedItems ==
    [ e \in Extractors |->
        [ c \in KnownContexts |->
            [ i \in 1..Len(RawItems) |-> parseSearchItem(e, RawItems[i], c) ] ] ]

\* one turn of the loop of extractProfiles: the profile to push when the
\* item parses and validates (with the item it was made from), else nothing
extractStep(extractor, item, searchContext) ==
    LET parsed == ParsedItems[extractor][searchContext][item.raw]
    IN  IF parsed /= << >> /\ validateProfile(extractor, parsed[1])
        THEN << parsed[1] @@ [ item |-> item ] >>
        ELSE << >>

RECURSIVE extractLoop(_, _, _, _, _)
\* a loop that pushes the profiles of the later items first
extractLoopLaterFirst(extractor, items, searchContext, lo, hi) ==
    IF lo > hi THEN << >>
    ELSE IF lo = hi THEN extractStep(extractor, items[lo], searchContext)
    ELSE extractLoop(extractor, items, searchContext, ((lo + hi) \div 2) + 1, hi)
             \o extractLoop(extractor, items, searchContext, lo, (lo + hi) \div 2)

\* the loop of extractProfiles over items[lo..hi], in the order of the items
extractLoop(extractor, items, searchContext, lo, hi) ==
    IF lo > hi THEN << >>
    ELSE IF lo = hi THEN extractStep(extractor, items[lo], searchContext)
    ELSE extractLoop(extractor, items, searchContext, lo, (lo + hi) \div 2)
             \o extractLoop(extractor, items, searchContext, ((lo + hi) \div 2) + 1, hi)

\* extractProfiles: a response without its item list gives no profile
extractProfiles(extractor, items, searchContext) ==
    IF items = Undefined THEN << >>
    ELSE extractLoop(extractor, items[1], searchContext, 1, Len(items[1]))

\* extractProfilesFromSerpApi copies title, link and snippet of each item and
\* runs the same loop
extractProfilesFromSerpApi(extractor, items, searchContext) ==
    extractProfiles(extractor, items, searchContext)

----------------------------------------------------------------------------
(* The search services: executeSearch and executeSearchAllPages *)

maxResults == 10

GoogleResultLimit == 100

GoogleDelayMs == 100

SerpApiPageLimit == 10

SerpApiDelayMs == 1000

SerpApiNumResults == 10

DefaultNumResults == 10

\* the size of a page that is neither empty nor full
ShortPage == 7

\* What a fetch can come to: the transport fails (fetch rejects), the status
\* is not a success, the body does not parse (json() rejects), or a page of
\* size items arrives (size 0: an empty or missing item list).
Responses ==
    [ kind : { "transport", "notok", "badbody" }, size : { 0 } ]
        \cup [ kind : { "ok" }, size : { 0, ShortPage, maxResults } ]

\* at most this many pages of one search are neither empty nor full
MaxShortPages == 1

IsShortPage(resp) == resp.kind = "ok" /\ resp.size > 0 /\ resp.size < maxResults

\* the answers the backend may give to the fetch in flight
Answers ==
    { resp \in Responses :
        IsShortPage(resp) =>
            Cardinality({ i \in DOMAIN pages : IsShortPage(pages[i]) }) < MaxShortPages }

Request(backend, start, num) == [type |-> "request", backend |-> backend, start |-> start, num |-> num]

Delay(ms) == [type |-> "delay", ms |-> ms]

Requests == SelectSeq(log, LAMBDA e : e.type = "request")

Delays == SelectSeq(log, LAMBDA e : e.type = "delay")

\* the items of the page that answers the n-th request
PageItems(n, size) == [ i \in 1..size |-> Item(n, i, ((n + i) % Len(RawItems)) + 1) ]

NoCall ==
    [ backend |-> "", mode |-> "", query |-> "", numResults |-> 0,
      startIndex |-> 1, page |-> 0, hasMoreResults |-> TRUE, allItems |-> << >> ]

NoResult == [status |-> "none", items |-> << >>]

NoResponse == [status |-> 0, total_results |-> 0, linkedin_urls |-> << >>, query |-> "", error |-> ""]

NoSession == [step |-> "none"]

\* LinkedInProfileSearchService.executeSearch sends its one request
GoogleExecuteSearchFetch ==
    /\ pc = "google_search"
    /\ log' = Append(log, Request("google", Undefined, Min(svc.numResults, maxResults)))
    /\ pc' = "google_search_await"
    /\ UNCHANGED << env, req, svc, pages, result, response, botMsgs, session, searchHistory, q, x, h, calls, chat >>

\* ... and returns the parsed body, or throws on a transport error, a
\* non-success status or an unparsable body
GoogleExecuteSearchResponse(resp) ==
    /\ pc = "google_search_await"
    /\ pages' = Append(pages, resp)
    /\ result' = IF resp.kind = "ok"
                 THEN [status |-> "returned",
                       items |-> PageItems(Len(Requests), Min(resp.size, Requests[Len(Requests)].num))]
                 ELSE [status |-> "threw", items |-> << >>]
    /\ pc' = "respond"
    /\ UNCHANGED << env, req, svc, log, response, botMsgs, session, searchHistory, q, x, h, calls, chat >>

\* LinkedInProfileSearchService.executeSearchAllPages: the head of the while
\* loop sends the request of the page at startIndex
GoogleAllPagesFetch ==
    /\ pc = "google_pages" /\ svc.hasMoreResults
    /\ log' = Append(log, Request("google", Some(svc.startIndex), maxResults))
    /\ pc' = "google_pages_await"
    /\ UNCHANGED << env, req, svc, pages, result, response, botMsgs, session, searchHistory, q, x, h, calls, chat >>

\* GoogleAllPagesResponse without the check of startIndex against the limit of
\* 100 results
GoogleAllPagesResponseNoLimit(resp) ==
    /\ pc = "google_pages_await"
    /\ pages' = Append(pages, resp)
    /\ IF resp.kind = "notok"
       THEN /\ pc' = "google_pages_exit"
            /\ svc' = svc
       ELSE IF resp.kind \in { "transport", "badbody" }
       THEN /\ pc' = "google_pages"
            /\ svc' = [svc EXCEPT !.hasMoreResults = FALSE]
       ELSE IF resp.size > 0
       THEN /\ pc' = "google_pages_delay"
            /\ svc' = [svc EXCEPT
                        !.allItems = svc.allItems \o PageItems(Len(Requests), resp.size),
                        !.startIndex = IF resp.size < maxResults THEN svc.startIndex
                                       ELSE svc.startIndex + maxResults,
                        !.hasMoreResults = resp.size >= maxResults]
       ELSE /\ pc' = "google_pages_delay"
            /\ svc' = [svc EXCEPT !.hasMoreResults = FALSE]
    /\ UNCHANGED << env, req, log, result, response, botMsgs, session, searchHistory, q, x, h, calls, chat >>

\* the body of the while loop once the fetch has settled
GoogleAllPagesResponse(resp) ==
    /\ pc = "google_pages_await"
    /\ pages' = Append(pages, resp)
    /\ IF resp.kind = "notok"
       THEN \* break
            /\ pc' = "google_pages_exit"
            /\ svc' = svc
       ELSE IF resp.kind \in { "transport", "badbody" }
       THEN \* catch
            /\ pc' = "google_pages"
            /\ svc' = [svc EXCEPT !.hasMoreResults = FALSE]
       ELSE IF resp.size > 0
       THEN /\ pc' = "google_pages_delay"
            /\ svc' = [svc EXCEPT
                        !.allItems = svc.allItems \o PageItems(Len(Requests), resp.size),
                        !.startIndex = IF resp.size < maxResults THEN svc.startIndex
                                       ELSE svc.startIndex + maxResults,
                        !.hasMoreResults = /\ resp.size >= maxResults
                                           /\ svc.startIndex + maxResults <= GoogleResultLimit]
       ELSE /\ pc' = "google_pages_delay"
            /\ svc' = [svc EXCEPT !.hasMoreResults = FALSE]
    /\ UNCHANGED << env, req, log, result, response, botMsgs, session, searchHistory, q, x, h, calls, chat >>

\* the loop going back to its head without waiting
GoogleAllPagesDelaySkipped ==
    /\ pc = "google_pages_delay"
    /\ pc' = "google_pages"
    /\ UNCHANGED << env, req, svc, log, pages, result, response, botMsgs, session, searchHistory, q, x, h, calls, chat >>

\* await new Promise(resolve => setTimeout(resolve, 100)), then back to the loop head
GoogleAllPagesDelay ==
    /\ pc = "google_pages_delay"
    /\ log' = Append(log, Delay(GoogleDelayMs))
    /\ pc' = "google_pages"
    /\ UNCHANGED << env, req, svc, pages, result, response, botMsgs, session, searchHistory, q, x, h, calls, chat >>

\* the loop is left (its condition is false, or break): return { items: allItems }
GoogleAllPagesReturn ==
    /\ \/ pc = "google_pages" /\ ~svc.hasMoreResults
       \/ pc = "google_pages_exit"
    /\ result' = [status |-> "returned", items |-> svc.allItems]
    /\ pc' = "respond"
    /\ UNCHANGED << env, req, svc, log, pages, response, botMsgs, session, searchHistory, q, x, h, calls, chat >>

\* SerpApiSearchService.executeSearch sends its one request
SerpApiExecuteSearchFetch ==
    /\ pc = "serpapi_search"
    /\ log' = Append(log, Request("serpapi", Undefined, svc.numResults))
    /\ pc' = "serpapi_search_await"
    /\ UNCHANGED << env, req, svc, pages, result, response, botMsgs, session, searchHistory, q, x, h, calls, chat >>

\* ... and returns the parsed body; its catch returns { organic_results: [] }
SerpApiExecuteSearchResponse(resp) ==
    /\ pc = "serpapi_search_await"
    /\ pages' = Append(pages, resp)
    /\ result' = [status |-> "returned",
                  items |-> IF resp.kind = "ok"
                            THEN PageItems(Len(Requests), Min(resp.size, Requests[Len(Requests)].num))
                            ELSE << >>]
    /\ pc' = "respond"
    /\ UNCHANGED << env, req, svc, log, response, botMsgs, session, searchHistory, q, x, h, calls, chat >>

\* a fetch that asks for the first page again
SerpApiAllPagesFetchFirstPage ==
    /\ pc = "serpapi_pages" /\ svc.page < SerpApiPageLimit
    /\ log' = Append(log, Request("serpapi", Some(0), SerpApiNumResults))
    /\ pc' = "serpapi_pages_await"
    /\ UNCHANGED << env, req, svc, pages, result, response, botMsgs, session, searchHistory, q, x, h, calls, chat >>

\* SerpApiSearchService.executeSearchAllPages: the head of the for loop sends
\* the request of the page at page * 10
SerpApiAllPagesFetch ==
    /\ pc = "serpapi_pages" /\ svc.page < SerpApiPageLimit
    /\ log' = Append(log, Request("serpapi", Some(svc.page * 10), SerpApiNumResults))
    /\ pc' = "serpapi_pages_await"
    /\ UNCHANGED << env, req, svc, pages, result, response, botMsgs, session, searchHistory, q, x, h, calls, chat >>

\* SerpApiAllPagesResponse with a failure or an empty page discarding the
\* results collected so far
SerpApiAllPagesResponseDropsItems(resp) ==
    /\ pc = "serpapi_pages_await"
    /\ pages' = Append(pages, resp)
    /\ IF resp.kind /= "ok" \/ resp.size = 0
       THEN /\ pc' = "serpapi_pages_exit"
            /\ svc' = [svc EXCEPT !.allItems = << >>]
       ELSE IF svc.page < SerpApiPageLimit - 1
       THEN /\ pc' = "serpapi_pages_delay"
            /\ svc' = [svc EXCEPT !.allItems = svc.allItems \o PageItems(Len(Requests), resp.size)]
       ELSE /\ pc' = "serpapi_pages"
            /\ svc' = [svc EXCEPT !.allItems = svc.allItems \o PageItems(Len(Requests), resp.size),
                                  !.page = svc.page + 1]
    /\ UNCHANGED << env, req, log, result, response, botMsgs, session, searchHistory, q, x, h, calls, chat >>

\* the body of the for loop once the fetch has settled: every failure and an
\* empty page break; a page with items is pushed, and the delay follows
\* unless this was the last page of the loop
SerpApiAllPagesResponse(resp) ==
    /\ pc = "serpapi_pages_await"
    /\ pages' = Append(pages, resp)
    /\ IF resp.kind /= "ok" \/ resp.size = 0
       THEN /\ pc' = "serpapi_pages_exit"
            /\ svc' = svc
       ELSE IF svc.page < SerpApiPageLimit - 1
       THEN /\ pc' = "serpapi_pages_delay"
            /\ svc' = [svc EXCEPT !.allItems = svc.allItems \o PageItems(Len(Requests), resp.size)]
       ELSE /\ pc' = "serpapi_pages"
            /\ svc' = [svc EXCEPT !.allItems = svc.allItems \o PageItems(Len(Requests), resp.size),
                                  !.page = svc.page + 1]
    /\ UNCHANGED << env, req, log, result, response, botMsgs, session, searchHistory, q, x, h, calls, chat >>

\* await new Promise(resolve => setTimeout(resolve, 1000)), then page++
SerpApiAllPagesDelay ==
    /\ pc = "serpapi_pages_delay"
    /\ log' = Append(log, Delay(SerpApiDelayMs))
    /\ svc' = [svc EXCEPT !.page = svc.page + 1]
    /\ pc' = "serpapi_pages"
    /\ UNCHANGED << env, req, pages, result, response, botMsgs, session, searchHistory, q, x, h, calls, chat >>

\* the loop is left (page reached 10, or break): return { organic_results: allResults }
SerpApiAllPagesReturn ==
    /\ \/ pc = "serpapi_pages" /\ svc.page >= SerpApiPageLimit
       \/ pc = "serpapi_pages_exit"
    /\ result' = [status |-> "returned", items |-> svc.allItems]
    /\ pc' = "respond"
    /\ UNCHANGED << env, req, svc, log, pages, response, botMsgs, session, searchHistory, q, x, h, calls, chat >>

----------------------------------------------------------------------------
(* The callers: POST /api/search/profiles, POST /api/search/profiles-serpapi *)
(* and the bot's handleSearchMethodSelection / performSearch.  The clock     *)
(* readings of the handlers (search_time, timestamp) are left out.           *)

\* JavaScript truthiness of a number | undefined
NumTruthy(o) == o /= Undefined /\ o[1] /= 0

\* the bodies of the search requests; num_results 0 is sent without filters
\* and without get_all_pages: true
HttpRequests ==
    { r \in { f @@ m : f \in HttpFilters,
                       m \in [ num_results : { Undefined, << 0 >>, << 5 >> },
                               get_all_pages : { Undefined, << TRUE >>, << FALSE >> } ] } :
        r.num_results = << 0 >> =>
            /\ r.region = Undefined /\ r.company_sector = Undefined
            /\ r.get_all_pages /= << TRUE >> }

\* request.get_all_pages !== undefined ? request.get_all_pages : !request.num_results
GetAllPages(request) ==
    IF request.get_all_pages /= Undefined THEN request.get_all_pages[1]
    ELSE ~NumTruthy(request.num_results)

\* request.num_results || 10
NumResults(request) == IF NumTruthy(request.num_results) THEN request.num_results[1] ELSE DefaultNumResults

\* the query string of the response and of the history record
SummaryQuery(request) ==
    LET queryParts == FilterTruthy(<< request.region, request.company_sector,
                                      request.company_type, request.company_size >>)
    IN  IF Len(queryParts) > 0 THEN Join(queryParts, " ") ELSE "All CTOs"

HistoryLimit == 100

\* searchHistory.unshift(record); if (searchHistory.length > 100) searchHistory.splice(100)
Unshift(history, record) ==
    LET grown == << record >> \o history
    IN  IF Len(grown) > HistoryLimit THEN SubSeq(grown, 1, HistoryLimit) ELSE grown

SearchRecord(query, request, totalResults) ==
    [ query |-> query, region |-> request.region, company_sector |-> request.company_sector,
      company_type |-> request.company_type, company_size |-> request.company_size,
      results_count |-> totalResults ]

StartCall(backend, getAllPages, query, numResults) ==
    [ NoCall EXCEPT !.backend = backend,
                    !.mode = IF getAllPages THEN "all" ELSE "one",
                    !.query = query,
                    !.numResults = numResults ]

\* POST /api/search/profiles up to the search-service call: there is no check
\* of GOOGLE_API_KEY or GOOGLE_CSE_ID on the way
PostSearchProfiles(request) ==
    /\ pc = "idle"
    /\ req' = request @@ [caller |-> "http_google"]
    /\ LET built == IF GetAllPages(request)
                    THEN SearchQuery(request.region, request.company_sector, request.company_type, Undefined)
                    ELSE LimitedSearchQuery(request.region, request.company_sector, request.company_type, Undefined)
       IN  IF built.threw
           THEN /\ result' = [status |-> "threw", items |-> << >>]
                /\ pc' = "respond"
                /\ svc' = svc
           ELSE /\ result' = result
                /\ pc' = IF GetAllPages(request) THEN "google_pages" ELSE "google_search"
                /\ svc' = StartCall("google", GetAllPages(request), built.query, NumResults(request))
    /\ UNCHANGED << env, log, pages, response, botMsgs, session, searchHistory, q, x, h, calls, chat >>

\* POST /api/search/profiles once the service call has ended: the catch of
\* the handler answers 500, else profiles are extracted, the search is
\* recorded and the summary is answered
PostSearchProfilesRespond ==
    /\ pc = "respond" /\ req.caller = "http_google"
    /\ IF result.status = "threw"
       THEN /\ response' = [NoResponse EXCEPT !.status = 500, !.error = "Search failed"]
            /\ searchHistory' = searchHistory
       ELSE LET profiles == extractProfiles(env.extractor, Some(result.items), HttpSearchContext(req))
                query == SummaryQuery(req)
            IN  /\ searchHistory' = Unshift(searchHistory, SearchRecord(query, req, Len(profiles)))
                /\ response' = [NoResponse EXCEPT
                                  !.status = 200,
                                  !.query = query,
                                  !.total_results = Len(profiles),
                                  !.linkedin_urls = [i \in 1..Len(profiles) |-> profiles[i].linkedin_url]]
    /\ pc' = "done"
    /\ UNCHANGED << env, req, svc, log, pages, result, botMsgs, session, q, x, h, calls, chat >>

\* POST /api/search/profiles-serpapi up to the search-service call: 400 when
\* SERPAPI_KEY is empty
PostSearchProfilesSerpApi(request) ==
    /\ pc = "idle"
    /\ req' = request @@ [caller |-> "http_serpapi"]
    /\ LET built == SerpApiSearchQuery(request.region, request.company_sector, request.company_type, Undefined)
       IN  IF ~env.serpKey
           THEN /\ response' = [NoResponse EXCEPT !.status = 400, !.error = "SerpAPI key not configured"]
                /\ pc' = "done"
                /\ UNCHANGED << result, svc >>
           ELSE IF built.threw
           THEN /\ result' = [status |-> "threw", items |-> << >>]
                /\ pc' = "respond"
                /\ UNCHANGED << response, svc >>
           ELSE /\ pc' = IF GetAllPages(request) THEN "serpapi_pages" ELSE "serpapi_search"
                /\ svc' = StartCall("serpapi", GetAllPages(request), built.query, SerpApiNumResults)
                /\ UNCHANGED << response, result >>
    /\ UNCHANGED << env, log, pages, botMsgs, session, searchHistory, q, x, h, calls, chat >>

\* POST /api/search/profiles-serpapi once the service call has ended
PostSearchProfilesSerpApiRespond ==
    /\ pc = "respond" /\ req.caller = "http_serpapi"
    /\ IF result.status = "threw"
       THEN /\ response' = [NoResponse EXCEPT !.status = 500, !.error = "SerpAPI search failed"]
            /\ searchHistory' = searchHistory
       ELSE LET profiles == extractProfilesFromSerpApi(env.extractor, Some(result.items), HttpSearchContext(req))
                query == SummaryQuery(req) \o " (SerpAPI)"
            IN  /\ searchHistory' = Unshift(searchHistory, SearchRecord(query, req, Len(profiles)))
                /\ response' = [NoResponse EXCEPT
                                  !.status = 200,
                                  !.query = query,
                                  !.total_results = Len(profiles),
                                  !.linkedin_urls = [i \in 1..Len(profiles) |-> profiles[i].linkedin_url]]
    /\ pc' = "done"
    /\ UNCHANGED << env, req, svc, log, pages, result, botMsgs, session, q, x, h, calls, chat >>

SearchMethods == { "google", "serpapi" }

\* handleSearchMethodSelection, then performSearch up to the search-service
\* call (always with getAllPages = true); the bot is constructed with the
\* services and the extractor of search-services
BotSearchMethodSelected(method, params) ==
    /\ pc = "idle" /\ env.extractor = ServicesExtractor
    /\ req' = params @@ [caller |-> "bot", num_results |-> Undefined, get_all_pages |-> Undefined]
    /\ session' = [ step |-> "searching", search_method |-> method,
                    searchParams |-> params, results |-> Undefined ]
    /\ botMsgs' = Append(botMsgs, "starting_search")
    /\ LET built == IF method = "google"
                    THEN SearchQuery(params.region, params.company_sector, params.company_type, Undefined)
                    ELSE SerpApiSearchQuery(params.region, params.company_sector, params.company_type, Undefined)
       IN  IF built.threw
           THEN /\ result' = [status |-> "threw", items |-> << >>]
                /\ pc' = "respond"
                /\ svc' = svc
           ELSE /\ result' = result
                /\ pc' = IF method = "google" THEN "google_pages" ELSE "serpapi_pages"
                /\ svc' = StartCall(method, TRUE, built.query, DefaultNumResults)
    /\ UNCHANGED << env, log, pages, response, searchHistory, q, x, h, calls, chat >>

\* performSearch once the service call has ended: its catch sends the error
\* message; else the profiles are stored in the session and either the
\* no-results message or the summary and the CSV document (or the message
\* that the CSV failed) are sent
BotSearchRespond(csvSent) ==
    /\ pc = "respond" /\ req.caller = "bot"
    /\ IF result.status = "threw"
       THEN /\ botMsgs' = Append(botMsgs, "search_error")
            /\ session' = session
       ELSE LET context == BotSearchContext(session.searchParams)
                profiles == IF session.search_method = "google"
                            THEN extractProfiles(env.extractor, Some(result.items), context)
                            ELSE extractProfilesFromSerpApi(env.extractor, Some(result.items), context)
            IN  /\ session' = [session EXCEPT !.results = Some(profiles), !.step = "results"]
                /\ botMsgs' = IF Len(profiles) = 0
                              THEN Append(botMsgs, "no_ctos_found")
                              ELSE botMsgs \o << "search_completed",
                                                 IF csvSent THEN "csv_document" ELSE "csv_failed" >>
    /\ pc' = "done"
    /\ UNCHANGED << env, req, svc, log, pages, result, response, searchHistory, q, x, h, calls, chat >>

----------------------------------------------------------------------------
(* SpecQuery: the query construction applied to bounded sets of filters *)

NoQuery == [threw |-> FALSE, queryParts |-> << >>, query |-> ""]

QueryMethods == { "searchCtoProfiles", "searchCtoProfilesLimited", "serpApiSearchCtoProfiles" }

\* every key of a table as written, lower-cased and upper-cased
Casings(table) == UNION { { k, ToLowerCase(k), ToUpperCase(k) } : k \in DOMAIN table }

QueryRegions == { Undefined, Some(""), Some("San Francisco") }

QuerySectors ==
    { Undefined, Some("") } \cup { Some(s) : s \in Casings(sectorKeywords) }
        \cup { Some("Software"), Some("robotics"), Some("constructor") }

QueryTypes ==
    { Undefined, Some("") } \cup { Some(s) : s \in Casings(typeKeywords) }
        \cup { Some("nonprofit"), Some("__proto__") }

QueryTitles == { Undefined, Some(<< >>), Some(<< "CIO", "Chief Information Officer" >>) }

QueryIdle == [phase |-> "idle"]

ExtractIdle == [phase |-> "idle"]

HistoryIdle == [phase |-> "idle"]

PairIdle == [phase |-> "idle"]

ChatIdle == [phase |-> "idle"]

\* the deployments: which of GOOGLE_API_KEY, GOOGLE_CSE_ID and SERPAPI_KEY are
\* set (at most one is missing), and which ProfileExtractor is built in
Envs ==
    { e \in [ googleKey : BOOLEAN, cseId : BOOLEAN, serpKey : BOOLEAN, extractor : Extractors ] :
        /\ Cardinality({ k \in { "googleKey", "cseId", "serpKey" } : ~e[k] }) <= 1
        /\ e.extractor = InlineExtractor => e.googleKey /\ e.cseId /\ e.serpKey }

\* no request is handled: the state the harnesses of the pure functions keep
Off ==
    /\ env = [googleKey |-> TRUE, cseId |-> TRUE, serpKey |-> TRUE, extractor |-> ServicesExtractor]
    /\ req = [caller |-> "none"]
    /\ pc = "off"
    /\ svc = NoCall
    /\ log = << >>
    /\ pages = << >>
    /\ result = NoResult
    /\ response = NoResponse
    /\ botMsgs = << >>
    /\ session = NoSession
    /\ searchHistory = << >>

mainVars == << env, req, pc, svc, log, pages, result, response, botMsgs, session, searchHistory >>

InitQuery ==
    /\ Off
    /\ q \in [ phase : { "call" }, method : QueryMethods, region : QueryRegions,
                companySector : QuerySectors, companyType : QueryTypes,
                additionalTitles : QueryTitles, out : { NoQuery } ]
    /\ x = ExtractIdle
    /\ h = HistoryIdle
    /\ calls = PairIdle
    /\ chat = ChatIdle

\* LinkedInProfileSearchService.searchCtoProfiles, up to the query
GoogleBuildsQuery ==
    /\ q.phase = "call" /\ q.method = "searchCtoProfiles"
    /\ q' = [q EXCEPT !.phase = "done",
                      !.out = SearchQuery(q.region, q.companySector, q.companyType, q.additionalTitles)]
    /\ UNCHANGED << mainVars, x, h, calls, chat >>

\* LinkedInProfileSearchService.searchCtoProfilesLimited, up to the query
GoogleLimitedBuildsQuery ==
    /\ q.phase = "call" /\ q.method = "searchCtoProfilesLimited"
    /\ q' = [q EXCEPT !.phase = "done",
                      !.out = LimitedSearchQuery(q.region, q.companySector, q.companyType, q.additionalTitles)]
    /\ UNCHANGED << mainVars, x, h, calls, chat >>

\* SerpApiSearchService.searchCtoProfiles, up to the query
SerpApiBuildsQuery ==
    /\ q.phase = "call" /\ q.method = "serpApiSearchCtoProfiles"
    /\ q' = [q EXCEPT !.phase = "done",
                      !.out = SerpApiSearchQuery(q.region, q.companySector, q.companyType, q.additionalTitles)]
    /\ UNCHANGED << mainVars, x, h, calls, chat >>

NextQuery == GoogleBuildsQuery \/ GoogleLimitedBuildsQuery \/ SerpApiBuildsQuery

vars == << env, req, pc, svc, log, pages, result, response, botMsgs, session, searchHistory, q, x, h, calls, chat >>

SpecQuery == InitQuery /\ [][NextQuery]_vars

----------------------------------------------------------------------------
(* SpecExtract: the extractor applied to bounded lists of result items *)

\* the longest item list handed to the extractor
MaxExtractItems == 2

ExtractMethods == { "extractProfiles", "extractProfilesFromSerpApi" }

\* the item lists: one page of up to MaxExtractItems of RawItems, in any order
ExtractItemLists ==
    UNION { { [ i \in 1..n |-> Item(1, i, f[i]) ] : f \in [ 1..n -> 1..Len(RawItems) ] } :
            n \in 0..MaxExtractItems }

InitExtract ==
    /\ Off
    /\ q = QueryIdle
    /\ h = HistoryIdle
    /\ calls = PairIdle
    /\ chat = ChatIdle
    /\ x \in [ phase : { "call" }, extractor : Extractors, method : ExtractMethods,
                searchContext : ExtractContexts,
                items : { Undefined } \cup { Some(l) : l \in ExtractItemLists },
                out : { << >> } ]

\* ProfileExtractor.extractProfiles on a Google response
ExtractsProfiles ==
    /\ x.phase = "call" /\ x.method = "extractProfiles"
    /\ x' = [x EXCEPT !.phase = "done",
                      !.out = extractProfiles(x.extractor, x.items, x.searchContext)]
    /\ UNCHANGED << mainVars, q, h, calls, chat >>

\* ProfileExtractor.extractProfilesFromSerpApi on a SerpAPI response
ExtractsProfilesFromSerpApi ==
    /\ x.phase = "call" /\ x.method = "extractProfilesFromSerpApi"
    /\ x' = [x EXCEPT !.phase = "done",
                      !.out = extractProfilesFromSerpApi(x.extractor, x.items, x.searchContext)]
    /\ UNCHANGED << mainVars, q, h, calls, chat >>

NextExtract == ExtractsProfiles \/ ExtractsProfilesFromSerpApi

SpecExtract == InitExtract /\ [][NextExtract]_vars

----------------------------------------------------------------------------
(* Spec: one search request, from either endpoint or from the bot, against  *)
(* a backend that answers each fetch in any of the ways of Responses         *)

Init ==
    /\ env \in Envs
    /\ req = [caller |-> "none"]
    /\ pc = "idle"
    /\ svc = NoCall
    /\ log = << >>
    /\ pages = << >>
    /\ result = NoResult
    /\ response = NoResponse
    /\ botMsgs = << >>
    /\ session = NoSession
    /\ searchHistory = << >>
    /\ q = QueryIdle
    /\ x = ExtractIdle
    /\ h = HistoryIdle
    /\ calls = PairIdle
    /\ chat = ChatIdle

Next ==
    \/ \E request \in HttpRequests : PostSearchProfiles(request)
    \/ \E request \in HttpRequests : PostSearchProfilesSerpApi(request)
    \/ \E method \in SearchMethods, params \in BotFilters : BotSearchMethodSelected(method, params)
    \/ GoogleExecuteSearchFetch
    \/ \E resp \in Answers : GoogleExecuteSearchResponse(resp)
    \/ GoogleAllPagesFetch
    \/ \E resp \in Answers : GoogleAllPagesResponse(resp)
    \/ GoogleAllPagesDelay
    \/ GoogleAllPagesReturn
    \/ SerpApiExecuteSearchFetch
    \/ \E resp \in Answers : SerpApiExecuteSearchResponse(resp)
    \/ SerpApiAllPagesFetch
    \/ \E resp \in Answers : SerpApiAllPagesResponse(resp)
    \/ SerpApiAllPagesDelay
    \/ SerpApiAllPagesReturn
    \/ PostSearchProfilesRespond
    \/ PostSearchProfilesSerpApiRespond
    \/ \E csvSent \in BOOLEAN : BotSearchRespond(csvSent)

Spec == Init /\ [][Next]_vars

----------------------------------------------------------------------------
(* Claims about query construction (SpecQuery) *)

FilterCount(o) == IF Truthy(o) THEN 1 ELSE 0

\* where the clauses of the three optional filters stand when they are present
RegionIndex == Len(<< "site:linkedin.com/in/", TitleClause(Undefined) >>) + 1

SectorIndex == RegionIndex + FilterCount(q.region)

TypeIndex == SectorIndex + FilterCount(q.companySector)

ExcludeIndex == TypeIndex + FilterCount(q.companyType)

\* the quoted OR-disjunction of a list of terms
Disjunction(terms) == "(" \o Join(Map(Quote, terms), " OR ") \o ")"

RemoveAt(seq, i) == SubSeq(seq, 1, i - 1) \o SubSeq(seq, i + 1, Len(seq))

RECURSIVE Offset(_, _)
\* the number of characters before part i in the single-space join of parts
Offset(parts, i) == IF i = 1 THEN 0 ELSE Offset(parts, i - 1) + Len(parts[i - 1]) + 1

MatchesKey(table, o, k) == Truthy(o) /\ ToLowerCase(o[1]) = ToLowerCase(k)

MatchesNoKey(table, o) == Truthy(o) /\ \A k \in DOMAIN table : ~MatchesKey(table, o, k)

\* C7: for every key of the sector table and of the company-type table, given
\* in any letter casing, the clause emitted for the filter is the quoted
\* OR-disjunction of that key's synonyms; a string that matches no key
\* case-insensitively gives the clause of the literal string alone.
C7_KeysMatchInAnyCasing ==
    q.phase = "done" =>
        /\ \A k \in DOMAIN sectorKeywords :
              MatchesKey(sectorKeywords, q.companySector, k) /\ ~q.out.threw =>
                  q.out.queryParts[SectorIndex] = Disjunction(sectorKeywords[k])
        /\ \A k \in DOMAIN typeKeywords :
              MatchesKey(typeKeywords, q.companyType, k) /\ ~q.out.threw =>
                  q.out.queryParts[TypeIndex] = Disjunction(typeKeywords[k])

\* C8: the query is the single-space join of the clauses namespace, titles,
\* region, sector, type, six exclusions, in that order; each optional filter
\* gives one clause when set and none when undefined or empty, and unsetting
\* one filter removes its clause and changes nothing else.
C8_ClauseOrder ==
    q.phase = "done" /\ ~q.out.threw =>
        LET P == q.out.queryParts
            n == Len(P)
        IN  /\ n = 2 + FilterCount(q.region) + FilterCount(q.companySector)
                      + FilterCount(q.companyType) + 6
            /\ P[1] = "site:linkedin.com/in/"
            /\ StartsWith(P[2], "(\"CTO\" OR \"Chief Technology Officer\" OR ")
            /\ Truthy(q.region) => P[RegionIndex] = Quote(q.region[1])
            /\ Truthy(q.companySector) =>
                  /\ StartsWith(P[SectorIndex], "(\"")
                  /\ RemoveAt(P, SectorIndex) =
                        SearchQuery(q.region, Undefined, q.companyType, q.additionalTitles).queryParts
            /\ Truthy(q.companyType) =>
                  /\ StartsWith(P[TypeIndex], "(\"")
                  /\ RemoveAt(P, TypeIndex) =
                        SearchQuery(q.region, q.companySector, Undefined, q.additionalTitles).queryParts
            /\ Truthy(q.region) =>
                  RemoveAt(P, RegionIndex) =
                      SearchQuery(Undefined, q.companySector, q.companyType, q.additionalTitles).queryParts
            /\ \A i \in 1..6 : P[ExcludeIndex + i - 1] = "-\"" \o excludes[i] \o "\""
            /\ Len(q.out.query) = Offset(P, n) + Len(P[n])
            /\ \A i \in 1..n :
                  /\ SubSeq(q.out.query, Offset(P, i) + 1, Offset(P, i) + Len(P[i])) = P[i]
                  /\ i < n => CharAt(q.out.query, Offset(P, i) + Len(P[i]) + 1) = " "

\* C8's case: a query built with all three optional filters set
C8_Witness ==
    /\ q.phase = "done" /\ ~q.out.threw
    /\ Truthy(q.region) /\ Truthy(q.companySector) /\ Truthy(q.companyType)
    /\ Len(q.out.queryParts) = 11

\* C9: query construction never throws, whatever the filter strings and the
\* additional titles; a string that is no table key gives the clause of that
\* literal string alone.
C9_NeverThrows ==
    q.phase = "done" =>
        /\ ~q.out.threw
        /\ q.out.query /= ""
        /\ MatchesNoKey(sectorKeywords, q.companySector) =>
              q.out.queryParts[SectorIndex] = Disjunction(<< q.companySector[1] >>)
        /\ MatchesNoKey(typeKeywords, q.companyType) =>
              q.out.queryParts[TypeIndex] = Disjunction(<< q.companyType[1] >>)

----------------------------------------------------------------------------
(* Claims about the page fetcher and its callers (Spec) *)

Exhaustive == svc.mode = "all"

Bounded == svc.mode = "one"

Ended == pc \in { "respond", "done" }

IsFailedPage(resp) == resp.kind /= "ok"

IsFullPage(resp) == resp.kind = "ok" /\ resp.size = maxResults

RECURSIVE ItemsOfPages(_)
\* the items of the pages that answered the first k requests, in order
ItemsOfPages(k) ==
    IF k = 0 THEN << >> ELSE ItemsOfPages(k - 1) \o PageItems(k, pages[k].size)

\* C1: in exhaustive mode, with either backend, a page of fewer than 10 items
\* ends pagination: no request follows it, so pages of 10, 10, 10 and 7 items
\* give 37 items after 4 fetches.
C1_ShortPageEndsPagination ==
    Exhaustive =>
        \A k \in 1..Len(pages) : IsShortPage(pages[k]) => Len(Requests) <= k

\* C2: in bounded mode, with either backend, a fetch that fails (transport
\* error, non-success status, unparsable body) reaches the caller as a thrown
\* error and never as a successful empty result.
C2_BoundedFailureThrows ==
    Bounded /\ Ended /\ Len(pages) = 1 /\ IsFailedPage(pages[1]) => result.status = "threw"

\* C3: an exhaustive fetch issues at most 10 requests and collects at most 100
\* items when no page holds more than 10; when every page is full it returns
\* exactly 100 items after exactly 10 requests.
C3_ExhaustiveFetchBounded ==
    Exhaustive =>
        /\ Len(Requests) <= 10
        /\ Len(svc.allItems) <= 100
        /\ result.status = "returned" =>
              /\ Len(result.items) <= 100
              /\ (\A k \in 1..Len(pages) : IsFullPage(pages[k])) =>
                    Len(Requests) = 10 /\ Len(result.items) = 100

\* C3's case: an exhaustive fetch that returned after ten full pages
C3_Witness ==
    /\ Exhaustive /\ result.status = "returned"
    /\ Len(pages) = 10 /\ \A k \in 1..10 : IsFullPage(pages[k])
    /\ Len(result.items) = 100

\* C4: in exhaustive mode, when the fetch of page k fails or page k is empty,
\* no further request is sent and the call returns, without raising, exactly
\* the items of pages 1..k-1 in their order.
C4_FailedPageKeepsEarlierItems ==
    Exhaustive =>
        \A k \in 1..Len(pages) :
            IsFailedPage(pages[k]) \/ pages[k].size = 0 =>
                /\ Len(pages) = k /\ Len(Requests) = k
                /\ svc.allItems = ItemsOfPages(k - 1)
                /\ result.status /= "threw"
                /\ Ended => result = [status |-> "returned", items |-> ItemsOfPages(k - 1)]

\* C4's case: the third fetch of an exhaustive search failed in transport
\* after two pages with items, and the call has returned those pages' items
C4_Witness ==
    /\ Exhaustive /\ Ended
    /\ Len(pages) = 3 /\ pages[3].kind = "transport"
    /\ IsFullPage(pages[1]) /\ IsShortPage(pages[2])
    /\ Len(result.items) = maxResults + ShortPage

\* C5: when a credential of the chosen backend is missing (GOOGLE_API_KEY or
\* GOOGLE_CSE_ID for Google, SERPAPI_KEY for SerpAPI), the search ends in an
\* error before any network request is sent, for both endpoints and the bot.
C5_NoRequestWithoutCredential ==
    \A i \in 1..Len(Requests) :
        /\ Requests[i].backend = "google" => env.googleKey /\ env.cseId
        /\ Requests[i].backend = "serpapi" => env.serpKey

\* C6: a search whose fetch failed with nothing retrieved is reported
\* differently from a search that succeeded with zero results: the endpoints
\* answer with an error status instead of 200 with total_results 0, and the
\* bot sends its error message instead of the no-results message.
C6_FailureDistinctFromNoResults ==
    pc = "done" /\ Len(pages) = 1 /\ IsFailedPage(pages[1]) =>
        /\ req.caller \in { "http_google", "http_serpapi" } => response.status /= 200
        /\ req.caller = "bot" => botMsgs[Len(botMsgs)] = "search_error"

----------------------------------------------------------------------------
(* Claims about the extractor (SpecExtract) *)

\* the inter-request delay of a backend
DelayOf(backend) == IF backend = "google" THEN GoogleDelayMs ELSE SerpApiDelayMs

\* the cursor of the first page of a backend
FirstStart(backend) == IF backend = "google" THEN 1 ELSE 0

\* C21: in exhaustive mode on either backend, between any two successive page
\* fetches of one search there is one inter-request delay (100 ms for Google,
\* 1000 ms for SerpAPI): the fetch of page k+1 never starts before the delay
\* that follows page k has elapsed.
C21_DelayBetweenFetches ==
    Exhaustive =>
        \A i \in 2..Len(log) :
            log[i].type = "request" =>
                /\ log[i - 1] = Delay(DelayOf(log[i].backend))
                /\ i >= 3 /\ log[i - 2].type = "request"

\* C21's case: an exhaustive Google search has sent its third request after two delays
C21_Witness ==
    /\ Exhaustive /\ svc.backend = "google" /\ Len(Requests) = 3
    /\ Len(Delays) = 2 /\ log[Len(log)].type = "request"

\* C22: within one exhaustive search, pages are requested with start cursors
\* that advance by exactly 10 per fetch (1, 11, 21, ... for Google; 0, 10,
\* 20, ... for SerpAPI), a page is requested only after the previous page's
\* response has been accumulated, and the items of page k all precede the
\* items of page k+1 in the returned sequence.
C22_PagesInCursorOrder ==
    Exhaustive =>
        /\ \A k \in 1..Len(Requests) :
              Requests[k].start = Some(FirstStart(svc.backend) + (k - 1) * maxResults)
        /\ Len(Requests) - Len(pages) \in { 0, 1 }
        /\ Len(Requests) > Len(pages) => svc.allItems = ItemsOfPages(Len(pages))
        /\ \A i \in 1..(Len(svc.allItems) - 1) :
              \/ svc.allItems[i].from < svc.allItems[i + 1].from
              \/ /\ svc.allItems[i].from = svc.allItems[i + 1].from
                 /\ svc.allItems[i].pos < svc.allItems[i + 1].pos
        /\ result.status = "returned" => result.items = svc.allItems

\* C22's case: a SerpAPI search returned the items of three pages
C22_Witness ==
    /\ Exhaustive /\ svc.backend = "serpapi" /\ result.status = "returned"
    /\ Len(Requests) = 4 /\ Requests[3].start = Some(2 * maxResults)
    /\ Len(result.items) = 2 * maxResults + ShortPage

\* the search context the caller of the finished search handed to the extractor
CallerSearchContext ==
    IF req.caller = "bot" THEN BotSearchContext(session.searchParams) ELSE HttpSearchContext(req)

\* the texts of the filters among region, sector and company type that are set
PresentFilters(params) ==
    LET all == << params.region, params.company_sector, params.company_type >>
        set == SelectSeq(all, LAMBDA o : o /= Undefined /\ o[1] /= "")
    IN  [ i \in 1..Len(set) |-> set[i][1] ]

\* C26: the search context handed to ProfileExtractor is built from the filter
\* values that are present only: a filter left unset or skipped contributes
\* no text, in the HTTP endpoints and in the bot's performSearch.
C26_ContextFromPresentFilters ==
    pc = "done" /\ result.status = "returned" =>
        /\ CallerSearchContext = Join(PresentFilters(req), " ")
        /\ req.region = Undefined => ~Includes(CallerSearchContext, "undefined")

\* a search endpoint has handed the request to its search service
IsHttpSearch == req.caller \in { "http_google", "http_serpapi" } /\ svc /= NoCall

\* C19: on both search endpoints, when get_all_pages is false the number of
\* results requested from the backend is num_results (10 when num_results is
\* absent), capped at the per-request maximum of 10, and exactly one page is
\* fetched.
C19_BoundedRequestsNumResults ==
    IsHttpSearch /\ ~GetAllPages(req) /\ pc = "done" =>
        /\ Len(Requests) = 1
        /\ Requests[1].num =
              Min(IF req.num_results = Undefined THEN DefaultNumResults ELSE req.num_results[1],
                  maxResults)

\* C20: when the request carries get_all_pages its value decides the fetch
\* mode (true = exhaustive, false = single page); when it does not, the mode
\* is exhaustive exactly when num_results is not specified.
C20_FetchModeSelection ==
    IsHttpSearch =>
        (svc.mode = "all") =
            (IF req.get_all_pages /= Undefined THEN req.get_all_pages[1]
             ELSE req.num_results = Undefined)

\* C10: every profile the extractor returns has a confidence score of at
\* least 20: a score of exactly 20 is retained, a score below 20 is dropped.
C10_MinimumConfidence ==
    x.phase = "done" => \A i \in 1..Len(x.out) : x.out[i].confidence_score >= 20

\* C11: every profile the extractor returns has a name of at least 2
\* characters and a non-empty linkedin_url; a candidate whose name is empty or
\* a single character is never returned, whatever its score.
C11_NameAtLeastTwoCharacters ==
    x.phase = "done" =>
        \A i \in 1..Len(x.out) : Len(x.out[i].name) >= 2 /\ x.out[i].linkedin_url /= ""

\* the link of the claim's example in lower case, and where its scheme and
\* host end
CanonicalLink == "https://www.linkedin.com/in/jane-doe"

SchemeHost(link) == SubSeq(link, 1, Len("https://www.linkedin.com"))

PathOf(link) == SubSeq(link, Len("https://www.linkedin.com") + 1, Len(link))

\* link is CanonicalLink up to the letter casing of its scheme and host
IsCasingVariant(link) ==
    /\ Len(link) = Len(CanonicalLink)
    /\ ToLowerCase(SchemeHost(link)) = SchemeHost(CanonicalLink)
    /\ PathOf(link) = PathOf(CanonicalLink)

\* C12: an item whose link is 'https://www.linkedin.com/in/jane-doe' in any
\* letter casing of the scheme and host passes the URL gate of parseSearchItem
\* and produces a candidate, as the all-lower-case link does.
C12_UrlCasingAccepted ==
    x.phase = "done" /\ x.items /= Undefined =>
        \A i \in 1..Len(x.items[1]) :
            IsCasingVariant(RawItems[x.items[1][i].raw].link) =>
                /\ linkedinUrlPattern(CanonicalLink)
                /\ ParsedItems[x.extractor][x.searchContext][x.items[1][i].raw] /= << >>

\* the four spellings of the profile namespace
ProfilePrefixes ==
    { "http://linkedin.com/in/", "https://linkedin.com/in/",
      "http://www.linkedin.com/in/", "https://www.linkedin.com/in/" }

\* url holds a profile address: one of ProfilePrefixes followed by a handle
\* of letters, digits, '_' or '-'
HoldsProfileAddress(url) ==
    \E p \in ProfilePrefixes, i \in 1..Len(url) :
        /\ MatchAt(url, i, p)
        /\ i + Len(p) <= Len(url)
        /\ IsWordChar(CharAt(url, i + Len(p))) \/ CharAt(url, i + Len(p)) = "-"

\* C13: every profile in the output of the extractor has a linkedin_url that
\* matches the profile URL pattern, and it is the link of the item it came
\* from; an item whose link does not match the pattern (another site, a
\* missing link) produces no profile.
C13_ProfileUrlMatchesPattern ==
    x.phase = "done" /\ x.items /= Undefined =>
        /\ \A j \in 1..Len(x.out) :
              /\ HoldsProfileAddress(x.out[j].linkedin_url)
              /\ x.out[j].linkedin_url = RawItems[x.out[j].item.raw].link
        /\ \A i \in 1..Len(x.items[1]) :
              ~HoldsProfileAddress(RawItems[x.items[1][i].raw].link) =>
                  \A j \in 1..Len(x.out) : x.out[j].item /= x.items[1][i]

\* C13's case: of two items, the one on another site is discarded and the
\* one in the profile namespace gives the only profile
C13_Witness ==
    /\ x.phase = "done" /\ x.items /= Undefined
    /\ Len(x.items[1]) = 2
    /\ RawItems[x.items[1][1].raw].link = "https://example.com/not-a-profile"
    /\ Len(x.out) = 1
    /\ x.out[1].item = x.items[1][2]

\* C15: the output of extractProfiles / extractProfilesFromSerpApi is an
\* order-preserving sub-sequence of the input: each output profile derives
\* from exactly one input item, each input item yields at most one profile,
\* and two output profiles are in the order of the items they derive from.
C15_OutputIsOrderedSubsequence ==
    x.phase = "done" /\ x.items /= Undefined =>
        /\ Len(x.out) <= Len(x.items[1])
        /\ \A j \in 1..Len(x.out) :
              /\ x.out[j].item.pos \in 1..Len(x.items[1])
              /\ x.items[1][x.out[j].item.pos] = x.out[j].item
              /\ x.out[j].linkedin_url = RawItems[x.out[j].item.raw].link
        /\ \A j, k \in 1..Len(x.out) :
              j < k => x.out[j].item.pos < x.out[k].item.pos

\* C15's case: two different items both give a profile
C15_Witness ==
    /\ x.phase = "done" /\ x.items /= Undefined
    /\ Len(x.items[1]) = 2 /\ x.items[1][1].raw /= x.items[1][2].raw
    /\ Len(x.out) = 2
    /\ x.out[1].item = x.items[1][1] /\ x.out[2].item = x.items[1][2]

\* C16: the single item {title: "Jane Doe - CTO at Acme", link:
\* "https://linkedin.com/in/janedoe", snippet: "Jane Doe is the CTO at Acme
\* Software, San Francisco area, ..."} with context "San Francisco software"
\* yields exactly one profile with name "Jane Doe", job title "Cto", company
\* "Acme" and a confidence score of at least 20.
C16_JaneDoeScenario ==
    /\ x.phase = "done" /\ x.items /= Undefined
    /\ Len(x.items[1]) = 1
    /\ RawItems[x.items[1][1].raw].title = "Jane Doe - CTO at Acme"
    /\ RawItems[x.items[1][1].raw].link = "https://linkedin.com/in/janedoe"
    /\ x.searchContext = "San Francisco software"
    => /\ Len(x.out) = 1
       /\ x.out[1].name = "Jane Doe"
       /\ x.out[1].title = "Cto"
       /\ x.out[1].company = "Acme"
       /\ x.out[1].confidence_score >= 20

\* C23: each returned profile records the backend that produced it: the
\* profiles of extractProfiles carry the Google source tag, the profiles of
\* extractProfilesFromSerpApi a tag that identifies SerpAPI.
C23_SourceTagNamesBackend ==
    x.phase = "done" =>
        \A j \in 1..Len(x.out) :
            /\ Len(x.out[j].sources) = 1
            /\ IF x.method = "extractProfilesFromSerpApi"
               THEN Includes(ToLowerCase(x.out[j].sources[1]), "serp")
               ELSE Includes(ToLowerCase(x.out[j].sources[1]), "google")

----------------------------------------------------------------------------
(* SpecScore: calculateConfidence of both extractors on bounded inputs *)

ScoreJobTitles == { "", "Cto", "Chief Technology Officer", "Engineer" }

ScoreCompanies == { "", "Acme", "Boston Robotics" }

\* six words of the last context are longer than 3 characters
LongContext == "Boston robotics software cloud fintech security"

ScoreContexts == { "", "Boston", LongContext }

\* a snippet with all five false-positive markers, and one longer than 100
\* characters that holds every word of LongContext
MarkedSnippet == "Former student and intern, ex-founder, previous CTO"

LongSnippet ==
    "CTO at Boston Robotics: software, cloud, fintech and security for industrial robots in greater Boston, since 2019"

ScoreSnippets == { "", MarkedSnippet, LongSnippet }

InitScore ==
    /\ Off
    /\ q = QueryIdle
    /\ h = HistoryIdle
    /\ calls = PairIdle
    /\ chat = ChatIdle
    /\ x \in [ phase : { "score" }, jobTitle : ScoreJobTitles, company : ScoreCompanies,
                searchContext : ScoreContexts, snippet : ScoreSnippets,
                extractor : { "" }, score : { 0 } ]

\* calculateConfidence of search-services
ScoresServices ==
    /\ x.phase = "score"
    /\ x' = [x EXCEPT !.phase = "scored", !.extractor = ServicesExtractor,
                      !.score = calculateConfidenceServices(x.jobTitle, x.company,
                                                            x.searchContext, x.snippet)]
    /\ UNCHANGED << mainVars, q, h, calls, chat >>

\* calculateConfidence of the single-file server
ScoresInline ==
    /\ x.phase = "score"
    /\ x' = [x EXCEPT !.phase = "scored", !.extractor = InlineExtractor,
                      !.score = calculateConfidenceInline(x.jobTitle, x.company,
                                                          x.searchContext, x.snippet)]
    /\ UNCHANGED << mainVars, q, h, calls, chat >>

NextScore == ScoresServices \/ ScoresInline

SpecScore == InitScore /\ [][NextScore]_vars

\* C14: for any job title, company, snippet and search context,
\* calculateConfidence returns a value in [0, 100] inclusive, under both
\* scoring strategies (40 / 30|20 / 20 / 10 and 30 / 40 / 20 / +2 / -20).
C14_ConfidenceInRange ==
    x.phase = "scored" => x.score \in 0..100

\* C14's case: a CTO title, a company and six context words in the snippet
\* add up to 102, and the score returned is 100
C14_Witness ==
    /\ x.phase = "scored" /\ x.extractor = ServicesExtractor
    /\ x.jobTitle = "Cto" /\ x.company = "Acme"
    /\ x.searchContext = LongContext /\ x.snippet = LongSnippet
    /\ x.score = 100

----------------------------------------------------------------------------
(* SpecPair: two exhaustive search-service calls on the same service        *)
(* instances, interleaved at their awaits (the fetch and the delay)          *)

\* the two calls
PairCalls == { "a", "b" }

\* the backend serves a call at most this many pages that hold items
MaxItemPages == 2

HoldsItems(resp) == resp.kind = "ok" /\ resp.size > 0

\* the locals of executeSearchAllPages at its start, and the answers received
NewCall(backend) ==
    [ backend |-> backend, pc |-> "head", startIndex |-> 1, page |-> 0, hasMoreResults |-> TRUE,
      allItems |-> << >>, sent |-> 0, got |-> << >>, returned |-> Undefined ]

\* the items of the page that answers the n-th request of call c
PairPageItems(c, n, size) == [ i \in 1..size |-> Item(n, i, ((n + i) % Len(RawItems)) + 1) @@ [call |-> c] ]

\* the answers the backend may give to the fetch in flight of call c
PairAnswers(c) ==
    { resp \in Responses :
        HoldsItems(resp) =>
            Cardinality({ i \in DOMAIN calls.call[c].got : HoldsItems(calls.call[c].got[i]) }) < MaxItemPages }

\* allItems.push(...items) on one array shared by the calls
PushShared(call, c, items) == [ d \in DOMAIN call |-> [call[d] EXCEPT !.allItems = @ \o items] ]

\* allItems.push(...items): allItems is a local of the call
Push(call, c, items) == [call EXCEPT ![c].allItems = @ \o items]

InitPair ==
    /\ Off
    /\ q = QueryIdle
    /\ x = ExtractIdle
    /\ h = HistoryIdle
    /\ chat = ChatIdle
    /\ calls \in { [ phase |-> "pair", call |-> [ c \in PairCalls |-> NewCall(b[c]) ] ] :
                      b \in [ PairCalls -> { "google", "serpapi" } ] }

\* the loop condition holds: the request of the next page is sent
PairFetch(c) ==
    /\ calls.phase = "pair" /\ calls.call[c].pc = "head"
    /\ IF calls.call[c].backend = "google" THEN calls.call[c].hasMoreResults
       ELSE calls.call[c].page < SerpApiPageLimit
    /\ calls' = [calls EXCEPT !.call[c].pc = "await", !.call[c].sent = @ + 1]
    /\ UNCHANGED << mainVars, q, x, h, chat >>

\* the body of the loop of call c once its fetch has settled
PairResponse(c, resp) ==
    /\ calls.phase = "pair" /\ calls.call[c].pc = "await"
    /\ resp \in PairAnswers(c)
    /\ LET l == calls.call[c]
           items == PairPageItems(c, l.sent, resp.size)
           heard == [calls.call EXCEPT ![c].got = Append(@, resp)]
       IN  calls' = [calls EXCEPT !.call =
             IF l.backend = "google"
             THEN IF resp.kind = "notok" THEN [heard EXCEPT ![c].pc = "exit"]
                  ELSE IF resp.kind \in { "transport", "badbody" }
                  THEN [heard EXCEPT ![c].pc = "head", ![c].hasMoreResults = FALSE]
                  ELSE IF resp.size > 0
                  THEN Push([heard EXCEPT
                               ![c].pc = "delay",
                               ![c].startIndex = IF resp.size < maxResults THEN l.startIndex
                                                 ELSE l.startIndex + maxResults,
                               ![c].hasMoreResults = /\ resp.size >= maxResults
                                                     /\ l.startIndex + maxResults <= GoogleResultLimit],
                            c, items)
                  ELSE [heard EXCEPT ![c].pc = "delay", ![c].hasMoreResults = FALSE]
             ELSE IF resp.kind /= "ok" \/ resp.size = 0 THEN [heard EXCEPT ![c].pc = "exit"]
                  ELSE IF l.page < SerpApiPageLimit - 1
                  THEN Push([heard EXCEPT ![c].pc = "delay"], c, items)
                  ELSE Push([heard EXCEPT ![c].pc = "head", ![c].page = l.page + 1], c, items)]
    /\ UNCHANGED << mainVars, q, x, h, chat >>

\* the delay of call c has elapsed
PairDelay(c) ==
    /\ calls.phase = "pair" /\ calls.call[c].pc = "delay"
    /\ calls' = [calls EXCEPT !.call[c].pc = "head",
                              !.call[c].page = IF calls.call[c].backend = "google" THEN @ ELSE @ + 1]
    /\ UNCHANGED << mainVars, q, x, h, chat >>

\* the loop of call c is left: the call returns its items, and its caller
\* extracts the profiles
PairReturn(c) ==
    /\ calls.phase = "pair"
    /\ \/ calls.call[c].pc = "exit"
       \/ /\ calls.call[c].pc = "head"
          /\ IF calls.call[c].backend = "google" THEN ~calls.call[c].hasMoreResults
             ELSE calls.call[c].page >= SerpApiPageLimit
    /\ calls' = [calls EXCEPT
                   !.call[c].pc = "returned",
                   !.call[c].returned =
                       Some([ items |-> calls.call[c].allItems,
                              profiles |-> extractProfiles(ServicesExtractor,
                                                           Some(calls.call[c].allItems), "") ])]
    /\ UNCHANGED << mainVars, q, x, h, chat >>

NextPair ==
    \/ \E c \in PairCalls : PairFetch(c)
    \/ \E c \in PairCalls, resp \in Responses : PairResponse(c, resp)
    \/ \E c \in PairCalls : PairDelay(c)
    \/ \E c \in PairCalls : PairReturn(c)

SpecPair == InitPair /\ [][NextPair]_vars

RECURSIVE AloneItems(_, _, _)
\* what a call with answers got[1..k] accumulates when it runs alone: the
\* items of its pages, in the order of the pages
AloneItems(c, got, k) ==
    IF k = 0 THEN << >>
    ELSE AloneItems(c, got, k - 1)
             \o (IF got[k].kind = "ok" THEN PairPageItems(c, k, got[k].size) ELSE << >>)

\* C24: two search requests that run concurrently on the same service and
\* extractor instances, under any interleaving of their awaited page fetches
\* and delays, each return exactly the item sequence and profiles they would
\* return if run alone against the same backend responses: no item fetched
\* for one request appears in the result of the other.
C24_ConcurrentCallsIsolated ==
    calls.phase = "pair" =>
        \A c \in PairCalls :
            LET l == calls.call[c]
            IN  /\ \A i \in 1..Len(l.allItems) : l.allItems[i].call = c
                /\ l.allItems = AloneItems(c, l.got, Len(l.got))
                /\ l.returned /= Undefined =>
                      /\ l.returned[1].items = AloneItems(c, l.got, Len(l.got))
                      /\ l.returned[1].profiles =
                            extractProfiles(ServicesExtractor,
                                            Some(AloneItems(c, l.got, Len(l.got))), "")

\* C24's case: two Google calls on the same instance both returned items,
\* the second page of one fetched between the pages of the other
C24_Witness ==
    /\ calls.phase = "pair"
    /\ \A c \in PairCalls :
          /\ calls.call[c].backend = "google"
          /\ calls.call[c].returned /= Undefined
          /\ Len(calls.call[c].got) = 2
    /\ Len(calls.call["a"].returned[1].items) = maxResults + ShortPage
    /\ Len(calls.call["b"].returned[1].items) = maxResults
    /\ Len(calls.call["a"].returned[1].profiles) > 0

----------------------------------------------------------------------------
(* SpecTitle: extractTitleAndCompany on titles written around each synonym *)

\* what stands before and after the synonym in a result title
TitlePrefixes == { "", "Jane Doe - ", "Senior " }

TitleSuffixes == { "", " at Acme", " | LinkedIn" }

TitleSnippets == { "", "Based in Boston" }

InitTitle ==
    /\ Off
    /\ q = QueryIdle
    /\ h = HistoryIdle
    /\ calls = PairIdle
    /\ chat = ChatIdle
    /\ \E i \in 1..Len(executiveTitles), pre \in TitlePrefixes, post \in TitleSuffixes,
          upper \in BOOLEAN, snippet \in TitleSnippets :
          x = [ phase |-> "title", synonym |-> executiveTitles[i],
                title |-> pre \o (IF upper THEN ToUpperCase(executiveTitles[i])
                                  ELSE executiveTitles[i]) \o post,
                snippet |-> snippet, out |-> << >> ]

\* ProfileExtractor.extractTitleAndCompany
ExtractsTitleAndCompany ==
    /\ x.phase = "title"
    /\ x' = [x EXCEPT !.phase = "titled", !.out = extractTitleAndCompany(x.title, x.snippet)]
    /\ UNCHANGED << mainVars, q, h, calls, chat >>

NextTitle == ExtractsTitleAndCompany

SpecTitle == InitTitle /\ [][NextTitle]_vars

\* C28: job-title extraction returns the first entry of the ordered synonym
\* list that occurs in the lower-cased text, and every entry of the list can
\* be the result: for each of the 11 synonyms there is a text containing it
\* whose extracted job title is that synonym in title case; the title that
\* is the synonym alone is such a text if any is.
C28_EverySynonymExtractable ==
    x.phase = "titled" /\ x.title = x.synonym /\ x.snippet = "" =>
        x.out[1] = toTitleCase(x.synonym)

----------------------------------------------------------------------------
(* SpecHistory: search handlers that interleave at their await, and         *)
(* GET /api/search/history, on a history of any length up to its limit     *)

\* the handlers that may be in flight together
MaxHandlers == 2

\* the search requests sent in one run
MaxSearches == 2

\* a number that is not one: the result of parseInt on a text without digits
NaN == << >>

RECURSIVE DigitsValue(_)
\* the value of a run of decimal digits
DigitsValue(s) ==
    IF s = "" THEN 0
    ELSE DigitsValue(SubSeq(s, 1, Len(s) - 1)) * 10 + (IndexIn(CharAt(s, Len(s)), Digits) - 1)

\* parseInt(s): leading white space, an optional sign, then the longest run of
\* digits; NaN when there is no digit there
parseInt(s) ==
    LET first == FirstIndex(Len(s), LAMBDA i : ~IsSpaceChar(CharAt(s, i)))
        signed == first > 0 /\ CharAt(s, first) \in { "-", "+" }
        from == IF signed THEN first + 1 ELSE first
        to == RunEnd(s, from, LAMBDA c : CharIn(c, Digits))
    IN  IF first = 0 \/ to < from THEN NaN
        ELSE IF CharAt(s, first) = "-" THEN << 0 - DigitsValue(SubSeq(s, from, to)) >>
        ELSE << DigitsValue(SubSeq(s, from, to)) >>

\* Math.min(a, b) where a may be NaN
MathMin(a, b) == IF a = NaN THEN NaN ELSE << Min(a[1], b) >>

\* Array.prototype.slice(0, end): NaN counts as 0, a negative end counts from
\* the end of the array
Slice(array, end) ==
    LET k == IF end = NaN THEN 0
             ELSE IF end[1] < 0 THEN Max(Len(array) + end[1], 0)
             ELSE Min(end[1], Len(array))
    IN  SubSeq(array, 1, k)

HistoryDefaultLimit == "10"

HistoryMaxLimit == 50

\* c.req.query("limit"): absent, or the text of the parameter
HistoryLimits ==
    { Undefined, Some(""), Some("0"), Some("5"), Some("50"), Some("51"), Some("-5"), Some("abc") }

\* timestamp: new Date().toISOString(), as the tick of the clock
Stamp(record, now) == record @@ [timestamp |-> now]

\* the body {} of a search request
EmptyRequest ==
    [ region |-> Undefined, company_sector |-> Undefined, company_type |-> Undefined,
      company_size |-> Undefined, num_results |-> Undefined, get_all_pages |-> Undefined ]

\* the search requests of SpecHistory: exhaustive, and bounded with a region
HistoryRequests ==
    { EmptyRequest, [EmptyRequest EXCEPT !.region = Some("Boston"), !.num_results = << 5 >>] }

HistoryEndpoints == { "http_google", "http_serpapi" }

\* the history after n searches of {} that found nothing, newest first
FilledHistory(n) ==
    [ i \in 1..n |-> Stamp(SearchRecord(SummaryQuery(EmptyRequest), EmptyRequest, 0), n + 1 - i) ]

\* how many searches were recorded before the run
HistoryFills == { 0, HistoryLimit - 1, HistoryLimit }

IdleHandler == [pc |-> "idle", endpoint |-> "", request |-> EmptyRequest]

NoHistoryResponse == [status |-> 0, limit |-> Undefined, searches |-> << >>]

\* how the search-service call of a handler can end: it throws (only the
\* bounded Google search does), or it returns the items of the pages fetched,
\* which are none when its fetch failed (fetchFailed) and the service
\* swallowed the failure
HistoryOutcomes(endpoint, request) ==
    { o \in [ status : { "returned", "threw" }, fetchFailed : BOOLEAN, total_results : 0..1 ] :
        /\ o.status = "threw" =>
              endpoint = "http_google" /\ ~GetAllPages(request) /\ o.fetchFailed /\ o.total_results = 0
        /\ o.status = "returned" /\ o.fetchFailed =>
              (endpoint = "http_serpapi" \/ GetAllPages(request)) /\ o.total_results = 0 }

InitHistory ==
    /\ env = [googleKey |-> TRUE, cseId |-> TRUE, serpKey |-> TRUE, extractor |-> ServicesExtractor]
    /\ req = [caller |-> "none"]
    /\ pc = "off"
    /\ svc = NoCall
    /\ log = << >>
    /\ pages = << >>
    /\ result = NoResult
    /\ response = NoResponse
    /\ botMsgs = << >>
    /\ session = NoSession
    /\ q = QueryIdle
    /\ x = ExtractIdle
    /\ calls = PairIdle
    /\ chat = ChatIdle
    /\ \E n \in HistoryFills :
          /\ searchHistory = FilledHistory(n)
          /\ h = [ phase |-> "serving", now |-> n + 1, sent |-> 0,
                   handlers |-> [ i \in 1..MaxHandlers |-> IdleHandler ],
                   completed |-> << >>, got |-> NoHistoryResponse ]

historyVars == << env, req, pc, svc, log, pages, result, response, botMsgs, session, q, x, calls, chat >>

\* a search endpoint up to the await of its search-service call
HistoryPostSearch(i, endpoint, request) ==
    /\ h.phase = "serving" /\ h.handlers[i].pc = "idle" /\ h.sent < MaxSearches
    /\ h' = [h EXCEPT !.sent = @ + 1,
                      !.handlers[i] = [pc |-> "await", endpoint |-> endpoint, request |-> request],
                      !.got = NoHistoryResponse]
    /\ UNCHANGED << historyVars, searchHistory >>

\* a search endpoint from the end of its search-service call: the catch
\* answers 500; otherwise the search is recorded at the head of the history,
\* which is cut to its limit, and the summary is answered
HistoryPostSearchResume(i, outcome) ==
    /\ h.phase = "serving" /\ h.handlers[i].pc = "await"
    /\ LET request == h.handlers[i].request
       IN  /\ outcome \in HistoryOutcomes(h.handlers[i].endpoint, request)
           /\ searchHistory' =
                 IF outcome.status = "threw" THEN searchHistory
                 ELSE Unshift(searchHistory,
                              Stamp(SearchRecord(SummaryQuery(request), request, outcome.total_results),
                                    h.now))
           /\ h' = [h EXCEPT !.now = @ + 1,
                             !.handlers[i] = IdleHandler,
                             !.completed = Append(@, [ at |-> h.now,
                                                       endpoint |-> h.handlers[i].endpoint,
                                                       status |-> outcome.status,
                                                       fetchFailed |-> outcome.fetchFailed ]),
                             !.got = NoHistoryResponse]
    /\ UNCHANGED historyVars

\* GET /api/search/history; h.got is the response of the request just served
GetSearchHistory(limit) ==
    /\ h.phase = "serving"
    /\ LET text == IF Truthy(limit) THEN limit[1] ELSE HistoryDefaultLimit
           n == MathMin(parseInt(text), HistoryMaxLimit)
       IN  h' = [h EXCEPT !.got = [ status |-> 200, limit |-> limit,
                                    searches |-> Slice(searchHistory, n) ]]
    /\ UNCHANGED << historyVars, searchHistory >>

NextHistory ==
    \/ \E i \in 1..MaxHandlers, endpoint \in HistoryEndpoints, request \in HistoryRequests :
          HistoryPostSearch(i, endpoint, request)
    \/ \E i \in 1..MaxHandlers,
          outcome \in [ status : { "returned", "threw" }, fetchFailed : BOOLEAN, total_results : 0..1 ] :
          HistoryPostSearchResume(i, outcome)
    \/ \E limit \in HistoryLimits : GetSearchHistory(limit)

SpecHistory == InitHistory /\ [][NextHistory]_vars

\* C17: GET /api/search/history returns at most 50 records for every value of
\* the limit parameter (absent, positive, zero, negative or non-numeric), 10
\* or fewer when limit is absent, and always the newest records first.
C17_HistoryResponseBounded ==
    h.phase = "serving" /\ h.got.status = 200 =>
        /\ Len(h.got.searches) <= HistoryMaxLimit
        /\ h.got.limit = Undefined => Len(h.got.searches) <= DigitsValue(HistoryDefaultLimit)
        /\ h.got.searches = SubSeq(searchHistory, 1, Len(h.got.searches))

\* a completed search failed: its handler answered 500, or the fetch of its
\* search-service call failed
SearchFailed(c) == c.status = "threw" \/ c.fetchFailed

\* the records of the history made at tick at
RecordsAt(at) == { i \in 1..Len(searchHistory) : searchHistory[i].timestamp = at }

\* the searches recorded since completion c, c included
RecordedSince(k) ==
    Cardinality({ j \in k..Len(h.completed) : ~SearchFailed(h.completed[j]) })

\* C18: after any sequence of search requests on the two search endpoints,
\* interleaved at their await points, the history holds at most 100 records,
\* newest-completed first, one for each of the most recent (up to 100)
\* searches that completed successfully and none for a search that failed.
C18_HistoryOfSuccessfulSearches ==
    h.phase = "serving" =>
        /\ Len(searchHistory) <= HistoryLimit
        /\ \A i, j \in 1..Len(searchHistory) :
              i < j => searchHistory[i].timestamp > searchHistory[j].timestamp
        /\ \A k \in 1..Len(h.completed) :
              IF SearchFailed(h.completed[k])
              THEN RecordsAt(h.completed[k].at) = { }
              ELSE RecordedSince(k) <= HistoryLimit =>
                       Cardinality(RecordsAt(h.completed[k].at)) = 1

----------------------------------------------------------------------------
(* SpecBot: one chat of the bot. The handlers of the updates of the chat     *)
(* interleave at their awaits; a handler keeps the session object it read    *)
(* from userSessions when it started.                                        *)

\* at most this many /start commands, and this many performSearch runs
MaxStarts == 1
MaxRuns == 2

BotSteps == { "start", "sector", "company_type", "company_size", "search_method", "searching", "results" }

\* the callback data of the buttons the bot offers, by prefix
CallbackData == { "region_", "sector_", "type_", "size_", "method_", "download_csv", "new_search" }

\* a session object as handleStart creates it; dropped: /reset deleted it
\* from userSessions
NewSession == [ step |-> "start", results |-> Undefined, dropped |-> FALSE ]

\* handleSearchMethodSelection at its first await, for session object of
NewRun(of) ==
    [ of |-> of, pc |-> "summary", delivered |-> << >>, late |-> { },
      file |-> "absent", timer |-> FALSE ]

\* the callback query answered last, with the step its session was at and
\* the number of CSV files begun before; none once another handler has run
NotAnswered == [ data |-> "", step |-> "", text |-> "", csvs |-> 0 ]

InitBot ==
    /\ Off
    /\ q = QueryIdle
    /\ x = ExtractIdle
    /\ h = HistoryIdle
    /\ calls = PairIdle
    /\ chat = [ phase |-> "bot", table |-> Undefined, sessions |-> << >>, runs |-> << >>,
                answered |-> NotAnswered ]

\* the runs of performSearch that have not ended
RunsInProgress == { r \in DOMAIN chat.runs : chat.runs[r].pc \notin { "done", "threw" } }

\* the runs that have come to generateAndSendCSV's writeRecords
CsvsStarted ==
    Cardinality({ r \in DOMAIN chat.runs :
                    chat.runs[r].pc \in { "send_csv", "send_csv_failed" }
                        \/ chat.runs[r].file /= "absent"
                        \/ "csv_failed" \in { chat.runs[r].delivered[i] : i \in DOMAIN chat.runs[r].delivered } })

\* handleStart: a new session object replaces the entry of the chat
HandleStart ==
    /\ chat.phase = "bot" /\ Len(chat.sessions) < MaxStarts
    /\ chat' = [chat EXCEPT !.sessions = Append(@, NewSession),
                            !.table = Some(Len(chat.sessions) + 1),
                            !.answered = NotAnswered]
    /\ UNCHANGED << mainVars, q, x, h, calls >>

\* handleReset: the entry of the chat is deleted, then the reset message is sent
HandleReset ==
    /\ chat.phase = "bot" /\ chat.table /= Undefined
    /\ chat' = [chat EXCEPT !.table = Undefined, !.sessions[chat.table[1]].dropped = TRUE,
                            !.answered = NotAnswered]
    /\ UNCHANGED << mainVars, q, x, h, calls >>

\* the step a selection handler leaves the session at
StepAfter(data) ==
    CASE data = "region_" -> "sector"
      [] data = "sector_" -> "company_type"
      [] data = "type_" -> "company_size"
      [] data = "size_" -> "search_method"
      [] data = "method_" -> "searching"

\* handleCallbackQuery: without a session the query is answered with
\* 'Session expired'; else it is answered and dispatched on the prefix of its
\* data alone
HandleCallbackQuery(data) ==
    /\ chat.phase = "bot"
    /\ IF chat.table = Undefined
       THEN chat' = [chat EXCEPT !.answered = [ data |-> data, step |-> "", text |-> "Session expired",
                                                csvs |-> CsvsStarted ]]
       ELSE LET s == chat.table[1]
                heard == [chat EXCEPT !.answered = [ data |-> data, step |-> chat.sessions[s].step,
                                                     text |-> "", csvs |-> CsvsStarted ]]
            IN  IF data \in { "region_", "sector_", "type_", "size_" }
                THEN chat' = [heard EXCEPT !.sessions[s].step = StepAfter(data)]
                ELSE IF data = "method_"
                THEN /\ Len(chat.runs) < MaxRuns
                     /\ chat' = [heard EXCEPT !.sessions[s].step = StepAfter(data),
                                              !.runs = Append(@, NewRun(s))]
                ELSE chat' = heard
    /\ UNCHANGED << mainVars, q, x, h, calls >>

\* run r with message kind delivered to the chat; late: the session of the
\* run had been reset when the message went out
Deliver(run, kind, dropped) ==
    [run EXCEPT !.delivered = Append(@, kind),
                !.late = IF dropped THEN @ \cup { kind } ELSE @]

\* the sendMessage or sendDocument that run r awaits settles
SendSettles(r, ok) ==
    /\ chat.phase = "bot" /\ r \in DOMAIN chat.runs
    /\ chat.runs[r].pc \in { "summary", "send_none", "send_results", "send_csv", "send_csv_failed", "send_error" }
    /\ LET run == chat.runs[r]
           dropped == chat.sessions[run.of].dropped
       IN  chat' = [chat EXCEPT !.answered = NotAnswered, !.runs[r] =
             CASE run.pc = "summary" ->
                    IF ok THEN [Deliver(run, "starting_search", dropped) EXCEPT !.pc = "search"]
                    ELSE [run EXCEPT !.pc = "threw"]
               [] run.pc = "send_none" ->
                    IF ok THEN [Deliver(run, "no_ctos_found", dropped) EXCEPT !.pc = "done"]
                    ELSE [run EXCEPT !.pc = "send_error"]
               [] run.pc = "send_results" ->
                    IF ok THEN [Deliver(run, "search_completed", dropped) EXCEPT !.pc = "write_csv"]
                    ELSE [run EXCEPT !.pc = "send_error"]
               [] run.pc = "send_csv" ->
                    IF ok THEN [Deliver(run, "csv_document", dropped) EXCEPT !.pc = "done", !.timer = TRUE]
                    ELSE [run EXCEPT !.pc = "send_csv_failed"]
               [] run.pc = "send_csv_failed" ->
                    IF ok THEN [Deliver(run, "csv_failed", dropped) EXCEPT !.pc = "done"]
                    ELSE [run EXCEPT !.pc = "send_error"]
               [] run.pc = "send_error" ->
                    IF ok THEN [Deliver(run, "search_error", dropped) EXCEPT !.pc = "done"]
                    ELSE [run EXCEPT !.pc = "threw"]]
    /\ UNCHANGED << mainVars, q, x, h, calls >>

SearchOutcomes == { "threw", "none", "some" }

\* performSearch: the search-service call of run r settles
SearchSettles(r, outcome) ==
    /\ chat.phase = "bot" /\ r \in DOMAIN chat.runs
    /\ chat.runs[r].pc = "search"
    /\ chat' = IF outcome = "threw"
               THEN [chat EXCEPT !.answered = NotAnswered, !.runs[r].pc = "send_error"]
               ELSE [chat EXCEPT !.answered = NotAnswered,
                                 !.sessions[chat.runs[r].of].results = Some(outcome),
                                 !.sessions[chat.runs[r].of].step = "results",
                                 !.runs[r].pc = IF outcome = "none" THEN "send_none" ELSE "send_results"]
    /\ UNCHANGED << mainVars, q, x, h, calls >>

\* generateAndSendCSV: writeRecords of run r settles
WriteSettles(r, ok) ==
    /\ chat.phase = "bot" /\ r \in DOMAIN chat.runs
    /\ chat.runs[r].pc = "write_csv"
    /\ chat' = IF ok
               THEN [chat EXCEPT !.answered = NotAnswered, !.runs[r].pc = "send_csv", !.runs[r].file = "present"]
               ELSE [chat EXCEPT !.answered = NotAnswered, !.runs[r].pc = "send_csv_failed"]
    /\ UNCHANGED << mainVars, q, x, h, calls >>

\* the timer that generateAndSendCSV set fires: the file is unlinked
CleanupTimer(r) ==
    /\ chat.phase = "bot" /\ r \in DOMAIN chat.runs
    /\ chat.runs[r].timer
    /\ chat' = [chat EXCEPT !.answered = NotAnswered,
                            !.runs[r].timer = FALSE,
                            !.runs[r].file = IF @ = "present" THEN "deleted" ELSE @]
    /\ UNCHANGED << mainVars, q, x, h, calls >>

NextBot ==
    \/ HandleStart
    \/ HandleReset
    \/ \E data \in CallbackData : HandleCallbackQuery(data)
    \/ \E r \in 1..MaxRuns, ok \in BOOLEAN : SendSettles(r, ok)
    \/ \E r \in 1..MaxRuns, outcome \in SearchOutcomes : SearchSettles(r, outcome)
    \/ \E r \in 1..MaxRuns, ok \in BOOLEAN : WriteSettles(r, ok)
    \/ \E r \in 1..MaxRuns : CleanupTimer(r)

SpecBot == InitBot /\ [][NextBot]_vars

\* C25: after /reset has been handled for a chat, no result summary and no
\* CSV document of the session that existed before the reset is sent to the
\* chat, also when the reset arrives while the search of the session is in
\* progress.
C25_NothingSentAfterReset ==
    chat.phase = "bot" =>
        \A r \in DOMAIN chat.runs :
            chat.runs[r].late \cap { "search_completed", "no_ctos_found", "csv_document" } = { }

\* C27: a 'method_' callback starts performSearch only when the session is at
\* step 'search_method', so that at most one search is in progress per chat.
C27_SearchOnlyFromSearchMethodStep ==
    chat.phase = "bot" =>
        /\ chat.answered.data = "method_" /\ chat.answered.text = "" =>
              chat.answered.step = "search_method"
        /\ Cardinality(RunsInProgress) <= 1

\* C29: every CSV file that generateAndSendCSV has written is deleted about a
\* minute later, whether sendDocument succeeds or fails: while the file is
\* there, either its document is still being sent or its cleanup timer is set.
C29_WrittenCsvIsCleanedUp ==
    chat.phase = "bot" =>
        \A r \in DOMAIN chat.runs :
            chat.runs[r].file = "present" =>
                chat.runs[r].pc = "send_csv" \/ chat.runs[r].timer

\* C30: every inline button has an effect in a live session: once the results
\* are shown, 'new_search' starts a new session at the first step and
\* 'download_csv' sends the CSV of the results of the session.
C30_ResultButtonsHaveEffect ==
    chat.phase = "bot" /\ chat.answered.step = "results" /\ chat.answered.text = "" =>
        /\ chat.answered.data = "new_search" =>
              chat.table /= Undefined /\ chat.sessions[chat.table[1]].step /= "results"
        /\ chat.answered.data = "download_csv" => CsvsStarted > chat.answered.csvs

====
